---- MODULE Spec2Model ----
(***************************************************************************)
(* A model of hexin: the sysfs parsing utilities, the CPU topology         *)
(* detector, the process manager and the scheduler control panel.          *)
(* Strings are sequences of one-character strings.                         *)
(***************************************************************************)
EXTENDS Integers, Sequences, FiniteSets, TLC

VARIABLES
    input,      \* parse_cpu_list: the string handed to the parser
    parsed,     \* parse_cpu_list: the Option<Vec<usize>> it returned
    ppc,        \* parse_cpu_list: "ready" before the call, "done" after
    kernel,           \* scheduling state the OS holds for the selected process
    selected_pid,     \* SchedulerPanel.selected_pid
    editing_policy,   \* SchedulerPanel.editing_policy
    editing_priority, \* SchedulerPanel.editing_priority
    presets,          \* SchedulerPanel.presets
    error_message,    \* SchedulerPanel.error_message
    success_message,  \* SchedulerPanel.success_message
    op,               \* the panel operation that ran last, with its argument
    calls,            \* the facade calls that operation made, in order
    before,           \* `kernel` as it was when that operation started
    sys,              \* the process table of the sysinfo handle
    processes,        \* ProcessManager.processes
    filter,           \* ProcessManager.filter
    sort_by,          \* ProcessManager.sort_by
    sort_desc,        \* ProcessManager.sort_desc
    view,             \* what the latest filtered_processes() returned
    pop,              \* the ProcessManager call that ran last
    sysfs,            \* /sys/devices/system/cpu/cpuN/cache/index3 of every cpu
    host,             \* the rest of the machine: cpu count, /proc and sysfs files
    cpu_info,         \* HexinApp.cpu_info
    vcache,           \* what cpu_info.vcache_cores() returned
    cpc,              \* "boot", "detected" after detect(), "queried", "aborted"
    cop,              \* the CpuInfo call that ran last, with its argument
    overflow_checks,  \* the build profile: arithmetic overflow panics or wraps
    target_os,        \* the cfg(target_os) the facade was compiled for
    size_text,        \* parse_cache_size: the string handed to the parser
    size_ret,         \* parse_cache_size: how the call ended
    spc,              \* parse_cache_size: "ready" before the call, "done" after
    fcall,            \* the facade function called last, with its arguments
    fret,             \* what that call returned
    syscalls,         \* the system calls that call issued, in order
    ring,             \* a RingBuffer
    pushed,           \* every value pushed into `ring` since new, in order
    cpu_history,      \* HexinApp.cpu_history
    hpushes,          \* the arguments of every CpuHistory::push so far
    now,              \* the monotonic clock, in milliseconds
    start_time,       \* HexinApp.start_time
    last_cpu_update,  \* HexinApp.last_cpu_update
    last_process_update, \* HexinApp.last_process_update
    refresh_interval_ms, \* HexinApp.config.refresh_interval_ms
    aop,              \* what the update_data calls so far have done
    usages,           \* cpu_usage of the processes handed to sort, in order
    ordered,          \* the orders sort may leave them in
    qpc,              \* sort by CpuUsage: "ready" before the call, "done" after
    editing_affinity, \* ProcessListPanel.editing_affinity
    affinity_selection, \* ProcessListPanel.affinity_selection
    list_error,       \* ProcessListPanel.error_message
    eop               \* the affinity editor event handled last, with its calls

parseVars == <<input, parsed, ppc>>

schedVars == <<kernel, selected_pid, editing_policy, editing_priority, presets,
               error_message, success_message, op, calls, before>>

cpuVars == <<sysfs, host, cpu_info, vcache, cpc, cop>>

buildVars == <<overflow_checks, target_os>>

sizeVars == <<size_text, size_ret, spc>>

facadeVars == <<fcall, fret, syscalls>>

procVars == <<sys, processes, filter, sort_by, sort_desc, view, pop>>

ringVars == <<ring, pushed>>

histVars == <<cpu_history, hpushes>>

appVars == <<now, start_time, last_cpu_update, last_process_update,
             refresh_interval_ms, aop>>

cmpVars == <<usages, ordered, qpc>>

editVars == <<editing_affinity, affinity_selection, list_error, eop>>

utilVars == <<ringVars, histVars, appVars, cmpVars, editVars>>

vars == <<input, parsed, ppc, kernel, selected_pid, editing_policy,
          editing_priority, presets, error_message, success_message, op,
          calls, before, sys, processes, filter, sort_by, sort_desc, view, pop,
          sysfs, host, cpu_info, vcache, cpc, cop, overflow_checks, target_os,
          size_text, size_ret, spc, fcall, fret, syscalls, utilVars>>

(***************************************************************************)
(* Bounds                                                                  *)
(***************************************************************************)
MaxLen == 5

NumCores == 2

MaxProcs == 3

(***************************************************************************)
(* Strings and Option values                                               *)
(***************************************************************************)
Digits == <<"0", "1", "2", "3", "4", "5", "6", "7", "8", "9">>

DigitSet == {Digits[i] : i \in 1..10}

White == {" ", "\n", "\t"}

Alphabet == {"0", "1", "2", ",", "-", " "}

Strings(n) ==
    UNION {[1..k -> Alphabet] : k \in 0..n}

Some(v) ==
    [some |-> TRUE, val |-> v]

NoneList ==
    [some |-> FALSE, val |-> <<>>]

NoneNum ==
    [some |-> FALSE, val |-> 0]

DigitVal(c) ==
    (CHOOSE i \in 1..10 : Digits[i] = c) - 1

RECURSIVE DecValue(_)
DecValue(t) ==
    IF t = <<>> THEN 0
    ELSE 10 * DecValue(SubSeq(t, 1, Len(t) - 1)) + DigitVal(t[Len(t)])

\* str::trim: drop leading and trailing whitespace
RECURSIVE TrimStart(_)
TrimStart(s) ==
    IF s # <<>> /\ s[1] \in White THEN TrimStart(Tail(s)) ELSE s

RECURSIVE TrimEnd(_)
TrimEnd(s) ==
    IF s # <<>> /\ s[Len(s)] \in White THEN TrimEnd(SubSeq(s, 1, Len(s) - 1)) ELSE s

Trim(s) ==
    TrimEnd(TrimStart(s))

\* str::contains(char)
ContainsChar(s, c) ==
    \E i \in 1..Len(s) : s[i] = c

\* str::contains(&str)
contains(hay, needle) ==
    \E off \in 0..(Len(hay) - Len(needle)) :
        SubSeq(hay, off + 1, off + Len(needle)) = needle

\* u32::to_string
RECURSIVE to_string(_)
to_string(n) ==
    IF n < 10 THEN <<Digits[n + 1]>>
    ELSE to_string(n \div 10) \o <<Digits[(n % 10) + 1]>>

\* str::split(char): always yields at least one piece, empty pieces included
RECURSIVE Split(_, _)
Split(s, c) ==
    IF ~ContainsChar(s, c) THEN <<s>>
    ELSE LET i == CHOOSE k \in 1..Len(s) : s[k] = c /\ \A j \in 1..(k - 1) : s[j] # c
         IN  <<SubSeq(s, 1, i - 1)>> \o Split(SubSeq(s, i + 1, Len(s)), c)

\* u64 and usize (a 64-bit target) values read from text are held exactly,
\* as four 16-bit limbs, lowest first
LimbBase == 2^16

\* the limbs of a number the model holds as an integer
U64(n) ==
    <<n % LimbBase, n \div LimbBase, 0, 0>>

\* the integer of a u64 below 2^31; the model holds cpu numbers and cache
\* ids, which the texts it reads keep below 2^31, as integers
narrow(w) ==
    IF w[3] = 0 /\ w[4] = 0 /\ w[2] < 2^15
    THEN w[2] * LimbBase + w[1]
    ELSE CHOOSE n \in {} : TRUE

\* w * m + carry computed exactly: the limbs of w and one more on top
RECURSIVE MulAddLimbs(_, _, _, _)
MulAddLimbs(w, m, carry, i) ==
    IF i > Len(w) THEN <<carry>>
    ELSE LET t == w[i] * m + carry
         IN  <<t % LimbBase>> \o MulAddLimbs(w, m, t \div LimbBase, i + 1)

\* u64 `*` in a build without overflow checks: the low 64 bits
wrapping_mul(w, m) ==
    SubSeq(MulAddLimbs(w, m, 0, 1), 1, 4)

\* u64 `*` leaves the range: a panic in a build with overflow checks
mul_overflows(w, m) ==
    MulAddLimbs(w, m, 0, 1)[5] # 0

\* a < b on u64
Less(a, b) ==
    \E i \in 1..4 : a[i] < b[i] /\ \A j \in (i + 1)..4 : a[j] = b[j]

\* a - b on u64, for a >= b
RECURSIVE SubLimbs(_, _, _, _)
SubLimbs(a, b, borrow, i) ==
    IF i > 4 THEN <<>>
    ELSE LET t == a[i] - b[i] - borrow
         IN  <<IF t < 0 THEN t + LimbBase ELSE t>>
             \o SubLimbs(a, b, IF t < 0 THEN 1 ELSE 0, i + 1)

\* the digit loop of from_str for an unsigned type of `limbs` limbs:
\* checked_mul(10) and checked_add(digit), None on PosOverflow
RECURSIVE ParseDigits(_, _, _, _)
ParseDigits(t, i, acc, limbs) ==
    IF i > Len(t) THEN Some(acc)
    ELSE LET next == MulAddLimbs(acc, 10, DigitVal(t[i]), 1)
         IN  IF \E j \in (limbs + 1)..5 : next[j] # 0
             THEN NoneNum
             ELSE ParseDigits(t, i + 1, SubSeq(next, 1, 4), limbs)

\* <uN as FromStr>::from_str: an optional '+', then one or more ASCII digits
\* whose value fits the type
from_str(t, limbs) ==
    LET body == IF t # <<>> /\ t[1] = "+" THEN Tail(t) ELSE t
    IN  IF body = <<>> \/ \E i \in 1..Len(body) : body[i] \notin DigitSet
        THEN NoneNum
        ELSE ParseDigits(body, 1, U64(0), limbs)

parse_u32(t) ==
    from_str(t, 2)

parse_u64(t) ==
    from_str(t, 4)

parse_usize(t) ==
    from_str(t, 4)

\* a Vec<usize> holds at most isize::MAX bytes: 2^60 - 1 elements
VEC_MAX_LEN ==
    <<LimbBase - 1, LimbBase - 1, LimbBase - 1, 2^12 - 1>>

\* a call that ended in a panic or an abort instead of returning
Panicked ==
    [some |-> FALSE, val |-> <<>>, panic |-> TRUE]

\* for i in start..end { result.push(i) }  -- the upper end left out
ExpandRangeExclusive(start, end) ==
    IF start >= end THEN <<>> ELSE [i \in 1..(end - start) |-> start + i - 1]

\* for i in start..=end { result.push(i) }
ExpandRange(start, end) ==
    IF start > end THEN <<>> ELSE [i \in 1..(end - start + 1) |-> start + i - 1]

\* one iteration of the loop over the comma-separated parts; acc is `result`.
\* The pushes of a range that cannot fit a Vec end in "capacity overflow".
RECURSIVE ParseParts(_, _, _)
ParseParts(parts, i, acc) ==
    IF i > Len(parts) THEN Some(acc)
    ELSE LET part == Trim(parts[i])
         IN  IF ContainsChar(part, "-")
             THEN LET range == Split(part, "-")
                      start == parse_usize(range[1])
                      end   == parse_usize(range[2])
                  IN  IF ~start.some THEN NoneList
                      ELSE IF ~end.some THEN NoneList
                      ELSE IF Less(end.val, start.val)
                      THEN ParseParts(parts, i + 1, acc)
                      ELSE IF ~Less(SubLimbs(end.val, start.val, 0, 1), VEC_MAX_LEN)
                      THEN Panicked
                      ELSE ParseParts(parts, i + 1,
                                      acc \o ExpandRange(narrow(start.val), narrow(end.val)))
             ELSE IF part # <<>>
             THEN LET n == parse_usize(part)
                  IN  IF ~n.some THEN NoneList
                      ELSE ParseParts(parts, i + 1, Append(acc, narrow(n.val)))
             ELSE ParseParts(parts, i + 1, acc)

parse_cpu_list(s) ==
    ParseParts(Split(Trim(s), ","), 1, <<>>)

\* the parser at rest, for the specifications that do not exercise it
ParseIdle ==
    /\ input = <<>>
    /\ parsed = NoneList
    /\ ppc = "ready"

(***************************************************************************)
(* CPU topology detector (system/cpu_info.rs)                              *)
(***************************************************************************)
\* fs::read_to_string: Some(content), or NoFile when the read fails
NoFile ==
    [some |-> FALSE, val |-> <<>>]

\* Result::unwrap_or_default on a file read
unwrap_or_default(file) ==
    IF file.some THEN file.val ELSE <<>>

unwrap_or(option, default) ==
    IF option.some THEN option.val ELSE default

\* read_sysfs_value::<T>: read, trim, parse as an unsigned type of `limbs`
\* limbs
read_sysfs_value(file, limbs) ==
    IF ~file.some THEN NoneNum ELSE from_str(Trim(file.val), limbs)

\* Option<uN> -> the same with the value held as an integer
narrowed(option) ==
    IF option.some THEN Some(narrow(option.val)) ELSE NoneNum

\* char::to_uppercase on the characters of a cache size
UpperChar(c) ==
    IF c = "k" THEN "K" ELSE IF c = "m" THEN "M" ELSE c

to_uppercase(s) ==
    [i \in 1..Len(s) |-> UpperChar(s[i])]

\* str::strip_suffix(char)
strip_suffix(s, c) ==
    IF s # <<>> /\ s[Len(s)] = c THEN Some(SubSeq(s, 1, Len(s) - 1)) ELSE NoneList

\* parse_cache_size with `*` keeping the low 64 bits; the value returned by
\* every call that does not panic
parse_cache_size(str) ==
    LET s  == to_uppercase(Trim(str))
        kb == strip_suffix(s, "K")
        mb == strip_suffix(s, "M")
    IN  IF kb.some THEN unwrap_or(parse_u64(kb.val), U64(0))
        ELSE IF mb.some THEN wrapping_mul(unwrap_or(parse_u64(mb.val), U64(0)), 1024)
        ELSE unwrap_or(parse_u64(s), U64(0))

\* the `* 1024` of parse_cache_size leaves the u64 range
parse_cache_size_overflows(str) ==
    LET s  == to_uppercase(Trim(str))
        kb == strip_suffix(s, "K")
        mb == strip_suffix(s, "M")
    IN  /\ ~kb.some
        /\ mb.some
        /\ mul_overflows(unwrap_or(parse_u64(mb.val), U64(0)), 1024)

\* parse_cache_size as the build runs it: with overflow checks the
\* multiplication panics where it would wrap
parse_cache_size_panics(str, checks) ==
    checks /\ parse_cache_size_overflows(str)

VCACHE_THRESHOLD_KB == 65536

\* L3CacheInfo whose is_vcache takes a cache of exactly 64 MB as V-Cache
L3CacheInfo_at_least(id, size_kb, shared_cpus) ==
    [id |-> id, size_kb |-> size_kb, shared_cpus |-> shared_cpus,
     is_vcache |-> ~Less(size_kb, U64(VCACHE_THRESHOLD_KB))]

L3CacheInfo(id, size_kb, shared_cpus) ==
    [id |-> id, size_kb |-> size_kb, shared_cpus |-> shared_cpus,
     is_vcache |-> Less(U64(VCACHE_THRESHOLD_KB), size_kb)]

\* the loop of detect_l3_caches over cpu_id..logical_cores-1; caches is the
\* HashMap, held as the set of its values (one per id).  {Panicked} when
\* reading a cache panics.
RECURSIVE ScanL3(_, _, _, _, _)
ScanL3(fs, cpu_id, logical_cores, caches, checks) ==
    IF cpu_id >= logical_cores THEN caches
    ELSE LET dir        == fs[cpu_id]
             id         == unwrap_or(narrowed(read_sysfs_value(dir.id, 2)), 0)
             size_str   == unwrap_or_default(dir.size)
             shared_str == unwrap_or_default(dir.shared_cpu_list)
             shared     == parse_cpu_list(shared_str)
         IN  IF ~dir.exists
             THEN ScanL3(fs, cpu_id + 1, logical_cores, caches, checks)
             ELSE IF \E c \in caches : c.id = id
             THEN ScanL3(fs, cpu_id + 1, logical_cores, caches, checks)
             ELSE IF parse_cache_size_panics(size_str, checks)
             THEN {Panicked}
             ELSE IF shared = Panicked
             THEN {Panicked}
             ELSE ScanL3(fs, cpu_id + 1, logical_cores,
                         caches \cup
                         {L3CacheInfo(id, parse_cache_size(size_str),
                                      unwrap_or(shared, <<>>))},
                         checks)

\* HashMap::into_values: the values in the order the hasher happens to give
RECURSIVE into_values(_, _)
into_values(caches, hash_order) ==
    IF hash_order = <<>> THEN <<>>
    ELSE (IF \E c \in caches : c.id = hash_order[1]
          THEN <<CHOOSE c \in caches : c.id = hash_order[1]>> ELSE <<>>)
         \o into_values(caches, Tail(hash_order))

\* sort_by_key(|c| c.id), stable
RECURSIVE sort_by_id(_)
sort_by_id(seq) ==
    IF seq = <<>> THEN <<>>
    ELSE LET sorted == sort_by_id(SubSeq(seq, 1, Len(seq) - 1))
             x      == seq[Len(seq)]
             later  == {i \in 1..Len(sorted) : x.id < sorted[i].id}
             at     == IF later = {} THEN Len(sorted) + 1
                       ELSE CHOOSE i \in later : \A j \in later : i <= j
         IN  SubSeq(sorted, 1, at - 1) \o <<x>> \o SubSeq(sorted, at, Len(sorted))

detect_l3_caches_panics(fs, logical_cores, checks) ==
    ScanL3(fs, 0, logical_cores, {}, checks) = {Panicked}

\* detect_l3_caches that returns the caches in the order of the HashMap
detect_l3_caches_hash_order(fs, logical_cores, hash_order, checks) ==
    into_values(ScanL3(fs, 0, logical_cores, {}, checks), hash_order)

\* detect_l3_caches: the scan, then the values sorted by id
detect_l3_caches(fs, logical_cores, hash_order, checks) ==
    sort_by_id(into_values(ScanL3(fs, 0, logical_cores, {}, checks), hash_order))

\* Vec::contains
vec_contains(v, x) ==
    \E i \in 1..Len(v) : v[i] = x

\* the texts the detector looks for
VENDOR_ID ==
    <<"v", "e", "n", "d", "o", "r", "_", "i", "d">>

MODEL_NAME ==
    <<"m", "o", "d", "e", "l", " ", "n", "a", "m", "e">>

AMD ==
    <<"A", "M", "D">>

INTEL ==
    <<"I", "n", "t", "e", "l">>

NODE ==
    <<"n", "o", "d", "e">>

UNKNOWN ==
    <<"U", "n", "k", "n", "o", "w", "n">>

\* str::split_once(char): the text before and after the first c
split_once(s, c) ==
    IF ~ContainsChar(s, c) THEN NoneList
    ELSE LET i == CHOOSE k \in 1..Len(s) : s[k] = c /\ \A j \in 1..(k - 1) : s[j] # c
         IN  Some(<<SubSeq(s, 1, i - 1), SubSeq(s, i + 1, Len(s))>>)

\* str::starts_with(&str)
starts_with(s, prefix) ==
    Len(s) >= Len(prefix) /\ SubSeq(s, 1, Len(prefix)) = prefix

\* the loop of read_cpuinfo over content.lines(): the (key, value) pairs in
\* the order they are inserted
RECURSIVE CpuinfoEntries(_)
CpuinfoEntries(lines) ==
    IF lines = <<>> THEN <<>>
    ELSE LET kv == split_once(lines[1], ":")
         IN  (IF kv.some
              THEN <<[key |-> Trim(kv.val[1]), value |-> Trim(kv.val[2])]>>
              ELSE <<>>) \o CpuinfoEntries(Tail(lines))

read_cpuinfo(file) ==
    IF file.some THEN CpuinfoEntries(Split(file.val, "\n")) ELSE <<>>

\* HashMap::get: the value inserted last under the key
hashmap_get(info, key) ==
    LET hits == {i \in 1..Len(info) : info[i].key = key}
    IN  IF hits = {} THEN NoneList
        ELSE Some(info[CHOOSE i \in hits : \A j \in hits : j <= i].value)

\* enum CpuVendor, by variant name
detect_vendor(cpuinfo) ==
    LET vendor == hashmap_get(cpuinfo, VENDOR_ID)
    IN  IF vendor.some /\ contains(vendor.val, AMD) THEN "AMD"
        ELSE IF vendor.some /\ contains(vendor.val, INTEL) THEN "Intel"
        ELSE "Other"

\* detect_physical_cores: logical / max(logical / siblings, 1), or logical / 2
detect_physical_cores(file, logical_cores) ==
    LET list  == IF file.some THEN parse_cpu_list(file.val) ELSE NoneList
        count == Len(list.val)
        per   == logical_cores \div count
    IN  IF file.some /\ list.some /\ count > 0
        THEN logical_cores \div (IF per > 1 THEN per ELSE 1)
        ELSE logical_cores \div 2

detect_physical_cores_panics(file) ==
    file.some /\ parse_cpu_list(file.val) = Panicked

\* the file format!("{}/node{}/cpulist", numa_path, node_id) names
CpulistOf(entries, node_id) ==
    LET path == NODE \o to_string(node_id)
        hits == {k \in 1..Len(entries) : entries[k].name = path}
    IN  IF hits = {} THEN NoFile ELSE entries[CHOOSE k \in hits : TRUE].cpulist

\* the loop of detect_numa_node over the directory entries from the k-th on:
\* Some(node_id) at the first node whose cpulist holds the cpu
RECURSIVE ScanNodes(_, _, _)
ScanNodes(entries, k, cpu_id) ==
    IF k > Len(entries) THEN NoneNum
    ELSE LET name_str == entries[k].name
             node_id  == narrowed(parse_usize(SubSeq(name_str, 5, Len(name_str))))
             content  == CpulistOf(entries, node_id.val)
             cpus     == parse_cpu_list(content.val)
         IN  IF ~starts_with(name_str, NODE) THEN ScanNodes(entries, k + 1, cpu_id)
             ELSE IF ~node_id.some THEN ScanNodes(entries, k + 1, cpu_id)
             ELSE IF ~content.some THEN ScanNodes(entries, k + 1, cpu_id)
             ELSE IF cpus = Panicked THEN Panicked
             ELSE IF cpus.some /\ vec_contains(cpus.val, cpu_id) THEN Some(node_id.val)
             ELSE ScanNodes(entries, k + 1, cpu_id)

detect_numa_node(nodes, cpu_id) ==
    IF ~nodes.some THEN 0 ELSE unwrap_or(ScanNodes(nodes.val, 1, cpu_id), 0)

detect_numa_node_panics(nodes, cpu_id) ==
    nodes.some /\ ScanNodes(nodes.val, 1, cpu_id) = Panicked

\* enum CoreType, by variant name; an L2 below 1500 KB marks an E-core
detect_intel_core_type(file) ==
    IF file.some /\ Less(parse_cache_size(file.val), U64(1500))
    THEN "Efficiency"
    ELSE "Performance"

detect_intel_core_type_panics(file, checks) ==
    file.some /\ parse_cache_size_panics(file.val, checks)

detect_amd_cluster(file) ==
    narrowed(read_sysfs_value(file, 4))

\* detect_core_topology; fs is the index3 directory of every cpu, hw the
\* rest of the machine
detect_core_topology(fs, hw, cpu_id, vendor) ==
    [cpu_id        |-> cpu_id,
     core_id       |-> unwrap_or(narrowed(read_sysfs_value(hw.core_id[cpu_id], 4)), cpu_id),
     package_id    |-> unwrap_or(narrowed(read_sysfs_value(hw.physical_package_id[cpu_id], 4)), 0),
     numa_node     |-> detect_numa_node(hw.nodes, cpu_id),
     core_type     |-> IF vendor = "Intel"
                       THEN detect_intel_core_type(hw.index2_size[cpu_id])
                       ELSE "Performance",
     cluster_id    |-> IF vendor = "AMD" THEN detect_amd_cluster(fs[cpu_id].id) ELSE NoneNum,
     l3_cache_id   |-> NoneNum,
     frequency_mhz |-> 0,
     usage_percent |-> 0]

detect_core_topology_panics(hw, cpu_id, vendor, checks) ==
    \/ detect_numa_node_panics(hw.nodes, cpu_id)
    \/ vendor = "Intel" /\ detect_intel_core_type_panics(hw.index2_size[cpu_id], checks)

\* w / d on u64 for a small d: long division from the limb i down
RECURSIVE DivLimbs(_, _, _, _)
DivLimbs(w, d, i, rem) ==
    IF i < 1 THEN <<>>
    ELSE LET t == rem * LimbBase + w[i]
         IN  DivLimbs(w, d, i - 1, t % d) \o <<t \div d>>

\* detect_frequency_range: kHz files to MHz, 0 when unreadable
detect_frequency_range(hw) ==
    LET khz_base == IF read_sysfs_value(hw.base_frequency, 4).some
                    THEN read_sysfs_value(hw.base_frequency, 4)
                    ELSE read_sysfs_value(hw.cpuinfo_min_freq, 4)
        khz_max  == read_sysfs_value(hw.cpuinfo_max_freq, 4)
    IN  [base |-> IF khz_base.some THEN DivLimbs(khz_base.val, 1000, 4, 0) ELSE U64(0),
         max  |-> IF khz_max.some THEN DivLimbs(khz_max.val, 1000, 4, 0) ELSE U64(0)]

\* the join storing the position of the cache in l3_caches instead of its id
join_l3_by_position(core, l3_caches) ==
    LET hits == {i \in 1..Len(l3_caches) : vec_contains(l3_caches[i].shared_cpus, core.cpu_id)}
    IN  IF hits = {} THEN core
        ELSE [core EXCEPT !.l3_cache_id =
                  Some((CHOOSE i \in hits : \A j \in hits : i <= j) - 1)]

\* the inner loop of the join: the first cache, in the order of l3_caches,
\* whose shared_cpus contains the core
join_l3(core, l3_caches) ==
    LET hits == {i \in 1..Len(l3_caches) : vec_contains(l3_caches[i].shared_cpus, core.cpu_id)}
    IN  IF hits = {} THEN core
        ELSE [core EXCEPT !.l3_cache_id =
                  Some(l3_caches[CHOOSE i \in hits : \A j \in hits : i <= j].id)]

\* f32 values are held exactly, as reduced fractions
RECURSIVE Gcd(_, _)
Gcd(a, b) ==
    IF b = 0 THEN a ELSE Gcd(b, a % b)

Frac(n, d) ==
    [num |-> n \div Gcd(n, d), den |-> d \div Gcd(n, d)]

\* CpuInfo::detect; Panicked when one of its steps panics
detect(fs, hw, hash_order, checks) ==
    LET model_name     == IF hw.cpu_arch.some THEN hw.cpu_arch.val ELSE UNKNOWN
        cpuinfo        == read_cpuinfo(hw.cpuinfo)
        vendor         == detect_vendor(cpuinfo)
        model          == unwrap_or(hashmap_get(cpuinfo, MODEL_NAME), model_name)
        logical_cores  == hw.ncpus
        physical_cores == detect_physical_cores(hw.core_siblings_list, logical_cores)
        l3_caches      == detect_l3_caches(fs, logical_cores, hash_order, checks)
        freq           == detect_frequency_range(hw)
    IN  IF \/ detect_physical_cores_panics(hw.core_siblings_list)
           \/ \E cpu_id \in 0..(logical_cores - 1) :
                  detect_core_topology_panics(hw, cpu_id, vendor, checks)
           \/ detect_l3_caches_panics(fs, logical_cores, checks)
        THEN Panicked
        ELSE [model_name          |-> model,
              vendor              |-> vendor,
              physical_cores      |-> physical_cores,
              logical_cores       |-> logical_cores,
              smt_enabled         |-> logical_cores > physical_cores,
              cores               |-> [i \in 1..logical_cores |->
                                          join_l3(detect_core_topology(fs, hw, i - 1, vendor),
                                                  l3_caches)],
              l3_caches           |-> l3_caches,
              base_frequency_mhz  |-> freq.base,
              max_frequency_mhz   |-> freq.max,
              total_usage_percent |-> Frac(0, 1)]

\* CpuInfo::update; cpus is sys.cpus(), one (cpu_usage, frequency) per cpu
cpu_info_update(self, cpus) ==
    LET n == Len(self.cores)
        RECURSIVE total_usage(_)
        total_usage(i) ==
            IF i > Len(cpus) THEN 0
            ELSE (IF i <= n THEN cpus[i].cpu_usage ELSE 0) + total_usage(i + 1)
    IN  [self EXCEPT
            !.cores = [i \in 1..n |->
                          IF i <= Len(cpus)
                          THEN [self.cores[i] EXCEPT !.usage_percent = cpus[i].cpu_usage,
                                                     !.frequency_mhz = cpus[i].frequency]
                          ELSE self.cores[i]],
            !.total_usage_percent = IF cpus # <<>>
                                    THEN Frac(total_usage(1), Len(cpus))
                                    ELSE Frac(0, 1)]

\* vcache_cores that takes the cpu lists of the V-Cache caches as they are
vcache_cores_from_shared(self) ==
    LET RECURSIVE Gather(_)
        Gather(i) ==
            IF i > Len(self.l3_caches) THEN <<>>
            ELSE (IF self.l3_caches[i].is_vcache
                  THEN self.l3_caches[i].shared_cpus ELSE <<>>) \o Gather(i + 1)
    IN  Gather(1)

\* CpuInfo::vcache_cores
vcache_cores(self) ==
    LET vcache_ids == {self.l3_caches[i].id :
                          i \in {j \in 1..Len(self.l3_caches) : self.l3_caches[j].is_vcache}}
        hit(c)     == c.l3_cache_id.some /\ c.l3_cache_id.val \in vcache_ids
        picked     == SelectSeq(self.cores, hit)
    IN  [i \in 1..Len(picked) |-> picked[i].cpu_id]

(***************************************************************************)
(* Scheduler control facade (system/scheduler.rs, system/process.rs)       *)
(***************************************************************************)
SCHED_OTHER == 0

SCHED_FIFO == 1

SCHED_RR == 2

SCHED_BATCH == 3

SCHED_IDLE == 5

\* SCHED_DEADLINE: a class the kernel knows and SchedulePolicy does not
SCHED_DEADLINE == 6

\* enum SchedulePolicy; v is the payload of Unknown(v) and 0 otherwise
Policy(tag) ==
    [tag |-> tag, v |-> 0]

Unknown(raw) ==
    [tag |-> "Unknown", v |-> raw]

\* from_raw with SCHED_BATCH falling into the SCHED_IDLE arm
from_raw_batch_as_idle(policy) ==
    IF policy = SCHED_OTHER THEN Policy("Other")
    ELSE IF policy = SCHED_FIFO THEN Policy("Fifo")
    ELSE IF policy = SCHED_RR THEN Policy("RoundRobin")
    ELSE IF policy = SCHED_BATCH THEN Policy("Idle")
    ELSE IF policy = SCHED_IDLE THEN Policy("Idle")
    ELSE Unknown(policy)

from_raw(policy) ==
    IF policy = SCHED_OTHER THEN Policy("Other")
    ELSE IF policy = SCHED_FIFO THEN Policy("Fifo")
    ELSE IF policy = SCHED_RR THEN Policy("RoundRobin")
    ELSE IF policy = SCHED_BATCH THEN Policy("Batch")
    ELSE IF policy = SCHED_IDLE THEN Policy("Idle")
    ELSE Unknown(policy)

to_raw(self) ==
    CASE self.tag = "Other" -> SCHED_OTHER
      [] self.tag = "Fifo" -> SCHED_FIFO
      [] self.tag = "RoundRobin" -> SCHED_RR
      [] self.tag = "Batch" -> SCHED_BATCH
      [] self.tag = "Idle" -> SCHED_IDLE
      [] self.tag = "Unknown" -> self.v

is_realtime(self) ==
    self.tag \in {"Fifo", "RoundRobin"}

\* SchedulePolicy::all()
all ==
    <<Policy("Other"), Policy("Batch"), Policy("Idle"), Policy("Fifo"),
      Policy("RoundRobin")>>

\* The kernel side of the three system calls.  A call that is refused
\* (permitted = FALSE: EPERM, ESRCH) or invalid (EINVAL) changes nothing.
RT_PRIO_MIN == 1

RT_PRIO_MAX == 99

MIN_NICE == -20

MAX_NICE == 19

\* every kernel call answers with ok, the state it leaves, and `sys`, the
\* call as the kernel received it
sched_setscheduler(k, raw, sched_priority, permitted) ==
    LET valid == /\ raw \in {SCHED_OTHER, SCHED_FIFO, SCHED_RR, SCHED_BATCH, SCHED_IDLE}
                 /\ IF raw \in {SCHED_FIFO, SCHED_RR}
                    THEN sched_priority \in RT_PRIO_MIN..RT_PRIO_MAX
                    ELSE sched_priority = 0
        ok    == permitted /\ valid
    IN  [ok  |-> ok,
         k   |-> IF ok THEN [k EXCEPT !.policy = raw, !.rtprio = sched_priority] ELSE k,
         sys |-> [name |-> "sched_setscheduler", policy |-> raw,
                  sched_priority |-> sched_priority]]

setpriority(k, nice, permitted) ==
    LET clamped == IF nice < MIN_NICE THEN MIN_NICE
                   ELSE IF nice > MAX_NICE THEN MAX_NICE ELSE nice
    IN  [ok  |-> permitted,
         k   |-> IF permitted THEN [k EXCEPT !.nice = clamped] ELSE k,
         sys |-> [name |-> "setpriority", prio |-> nice]]

sched_setaffinity(k, cpuset, online, permitted) ==
    LET ok == permitted /\ (cpuset \cap online) # {}
    IN  [ok  |-> ok,
         k   |-> IF ok THEN [k EXCEPT !.affinity = cpuset \cap online] ELSE k,
         sys |-> [name |-> "sched_setaffinity", mask |-> cpuset]]

\* sched_get_priority_min and sched_get_priority_max
sched_get_priority_min(raw) ==
    IF raw \in {SCHED_FIFO, SCHED_RR} THEN RT_PRIO_MIN ELSE 0

sched_get_priority_max(raw) ==
    IF raw \in {SCHED_FIFO, SCHED_RR} THEN RT_PRIO_MAX ELSE 0

\* set_scheduler that hands the caller's priority to the kernel as it is
set_scheduler_any_priority(k, policy, priority, permitted) ==
    sched_setscheduler(k, to_raw(policy), priority, permitted)

\* set_scheduler: the priority is passed on only for a real-time policy
set_scheduler(k, policy, priority, permitted) ==
    sched_setscheduler(k, to_raw(policy),
                       IF is_realtime(policy) THEN priority ELSE 0, permitted)

set_process_nice(k, nice, permitted) ==
    setpriority(k, nice, permitted)

\* set_process_affinity: CPU_SET for every core of the slice, then the call
set_process_affinity(k, cores, online, permitted) ==
    sched_setaffinity(k, {cores[i] : i \in 1..Len(cores)}, online, permitted)

\* get_scheduler_info: (policy, nice); Unknown(-1) when the query fails
get_scheduler_info(k, readable) ==
    IF ~readable THEN [policy |-> Unknown(-1), priority |-> 0]
    ELSE [policy |-> from_raw(k.policy), priority |-> k.nice]

\* get_rt_priority_range: the kernel's bounds for a real-time policy
get_rt_priority_range(policy) ==
    IF is_realtime(policy)
    THEN <<sched_get_priority_min(to_raw(policy)), sched_get_priority_max(to_raw(policy))>>
    ELSE <<0, 0>>

CPU_SETSIZE == 1024

\* (from..to-1).collect()
RECURSIVE collect_range(_, _)
collect_range(from, to) ==
    IF from >= to THEN <<>> ELSE <<from>> \o collect_range(from + 1, to)

\* the loop of get_process_affinity over i..limit-1 pushing the cpus set in
\* the mask
RECURSIVE CollectSet(_, _, _)
CollectSet(mask, i, limit) ==
    IF i >= limit THEN <<>>
    ELSE (IF i \in mask THEN <<i>> ELSE <<>>) \o CollectSet(mask, i + 1, limit)

\* get_process_affinity: the cpus of the mask, or all when the query fails
get_process_affinity(k, logical_cores, readable) ==
    IF readable
    THEN CollectSet(k.affinity, 0,
                    IF logical_cores < CPU_SETSIZE THEN logical_cores ELSE CPU_SETSIZE)
    ELSE collect_range(0, logical_cores)

\* The facade as compiled with cfg(not(target_os = "linux")): no system call
\* is made; a setter answers Err, a getter a fixed value.
get_scheduler_info_other_os(k) ==
    [policy |-> Policy("Other"), priority |-> 0]

set_scheduler_other_os(k, policy, priority) ==
    [ok |-> FALSE, k |-> k]

set_process_nice_other_os(k, nice) ==
    [ok |-> FALSE, k |-> k]

get_rt_priority_range_other_os(policy) ==
    <<1, 99>>

\* get_process_affinity for another OS that leaves out the last cpu
get_process_affinity_other_os_short(k, logical_cores) ==
    collect_range(0, logical_cores - 1)

get_process_affinity_other_os(k, logical_cores) ==
    collect_range(0, logical_cores)

set_process_affinity_other_os(k, cores) ==
    [ok |-> FALSE, k |-> k]

Preset(name, policy, priority, affinity_cores) ==
    [name |-> name, policy |-> policy, priority |-> priority,
     affinity_cores |-> affinity_cores]

\* (0..all_cores).filter(|c| !vcache_cores.contains(c)).collect()
RECURSIVE NonVcache(_, _, _)
NonVcache(vc_cores, c, all_cores) ==
    IF c >= all_cores THEN <<>>
    ELSE (IF \E i \in 1..Len(vc_cores) : vc_cores[i] = c THEN <<>> ELSE <<c>>)
         \o NonVcache(vc_cores, c + 1, all_cores)

\* builtin_presets that adds the non-cache preset without looking at
\* non_vcache
builtin_presets_unconditional(vc_cores, all_cores) ==
    LET fixed == << Preset("Default", Policy("Other"), 0, NoneList),
                    Preset("HighPriority", Policy("Other"), -10, NoneList),
                    Preset("Background", Policy("Idle"), 0, NoneList),
                    Preset("RealtimeFifo", Policy("Fifo"), 50, NoneList) >>
        non_vcache == NonVcache(vc_cores, 0, all_cores)
    IN  IF vc_cores # <<>>
        THEN fixed
             \o << Preset("GameVCache", Policy("Other"), -5, Some(vc_cores)) >>
             \o << Preset("RenderCompile", Policy("Other"), 0, Some(non_vcache)) >>
        ELSE fixed

builtin_presets(vc_cores, all_cores) ==
    LET fixed == << Preset("Default", Policy("Other"), 0, NoneList),
                    Preset("HighPriority", Policy("Other"), -10, NoneList),
                    Preset("Background", Policy("Idle"), 0, NoneList),
                    Preset("RealtimeFifo", Policy("Fifo"), 50, NoneList) >>
        non_vcache == NonVcache(vc_cores, 0, all_cores)
    IN  IF vc_cores # <<>>
        THEN fixed
             \o << Preset("GameVCache", Policy("Other"), -5, Some(vc_cores)) >>
             \o (IF non_vcache # <<>>
                 THEN << Preset("RenderCompile", Policy("Other"), 0, Some(non_vcache)) >>
                 ELSE <<>>)
        ELSE fixed

(***************************************************************************)
(* SchedulerPanel (ui/scheduler.rs).  A panel operation maps the kernel     *)
(* state and the two messages to their new values and lists the facade     *)
(* calls it made; perm says which of the system calls the OS lets through. *)
(***************************************************************************)
NoMsg ==
    [some |-> FALSE, val |-> ""]

Call(fn, ok) ==
    [fn |-> fn, ok |-> ok]

Outcome(k, err, succ, cs) ==
    [kernel |-> k, error_message |-> err, success_message |-> succ, calls |-> cs]

\* apply_preset that goes on to the affinity step after a failed nice step
apply_preset_no_stop(k, err, succ, preset, online, perm) ==
    LET priority == IF is_realtime(preset.policy) THEN preset.priority ELSE 0
        r1 == set_scheduler(k, preset.policy, priority, perm.sched)
        nice_step == ~is_realtime(preset.policy) /\ preset.priority # 0
        r2 == set_process_nice(r1.k, preset.priority, perm.nice)
        c2 == IF nice_step THEN <<Call("set_process_nice", r2.ok)>> ELSE <<>>
        k2 == IF nice_step THEN r2.k ELSE r1.k
        e2 == IF nice_step /\ ~r2.ok THEN Some("set_process_nice") ELSE err
        r3 == set_process_affinity(k2, preset.affinity_cores.val, online, perm.aff)
    IN  IF ~r1.ok
        THEN Outcome(r1.k, Some("set_scheduler"), NoMsg, <<Call("set_scheduler", FALSE)>>)
        ELSE IF preset.affinity_cores.some
        THEN IF ~r3.ok
             THEN Outcome(r3.k, Some("set_process_affinity"), succ,
                          <<Call("set_scheduler", TRUE)>> \o c2
                              \o <<Call("set_process_affinity", FALSE)>>)
             ELSE Outcome(r3.k, NoMsg, Some(preset.name),
                          <<Call("set_scheduler", TRUE)>> \o c2
                              \o <<Call("set_process_affinity", TRUE)>>)
        ELSE IF nice_step /\ ~r2.ok
        THEN Outcome(k2, e2, succ, <<Call("set_scheduler", TRUE)>> \o c2)
        ELSE Outcome(k2, NoMsg, Some(preset.name), <<Call("set_scheduler", TRUE)>> \o c2)

\* apply_preset that sets the niceness before the scheduling class
apply_preset_nice_first(k, err, succ, preset, online, perm) ==
    LET priority == IF is_realtime(preset.policy) THEN preset.priority ELSE 0
        nice_step == ~is_realtime(preset.policy) /\ preset.priority # 0
        r0 == set_process_nice(k, preset.priority, perm.nice)
        k0 == IF nice_step THEN r0.k ELSE k
        c0 == IF nice_step THEN <<Call("set_process_nice", r0.ok)>> ELSE <<>>
        r1 == set_scheduler(k0, preset.policy, priority, perm.sched)
        r3 == set_process_affinity(r1.k, preset.affinity_cores.val, online, perm.aff)
    IN  IF nice_step /\ ~r0.ok
        THEN Outcome(k0, Some("set_process_nice"), succ, c0)
        ELSE IF ~r1.ok
        THEN Outcome(r1.k, Some("set_scheduler"), NoMsg,
                     c0 \o <<Call("set_scheduler", FALSE)>>)
        ELSE IF preset.affinity_cores.some
        THEN Outcome(r3.k,
                     IF r3.ok THEN NoMsg ELSE Some("set_process_affinity"),
                     IF r3.ok THEN Some(preset.name) ELSE succ,
                     c0 \o <<Call("set_scheduler", TRUE),
                             Call("set_process_affinity", r3.ok)>>)
        ELSE Outcome(r1.k, NoMsg, Some(preset.name),
                     c0 \o <<Call("set_scheduler", TRUE)>>)

apply_preset(k, err, succ, preset, online, perm) ==
    LET priority == IF is_realtime(preset.policy) THEN preset.priority ELSE 0
        r1 == set_scheduler(k, preset.policy, priority, perm.sched)
        nice_step == ~is_realtime(preset.policy) /\ preset.priority # 0
        r2 == set_process_nice(r1.k, preset.priority, perm.nice)
        c2 == IF nice_step THEN <<Call("set_process_nice", TRUE)>> ELSE <<>>
        k2 == IF nice_step THEN r2.k ELSE r1.k
        r3 == set_process_affinity(k2, preset.affinity_cores.val, online, perm.aff)
    IN  IF ~r1.ok
        THEN Outcome(r1.k, Some("set_scheduler"), NoMsg, <<Call("set_scheduler", FALSE)>>)
        ELSE IF nice_step /\ ~r2.ok
        THEN Outcome(r2.k, Some("set_process_nice"), succ,
                     <<Call("set_scheduler", TRUE), Call("set_process_nice", FALSE)>>)
        ELSE IF preset.affinity_cores.some /\ ~r3.ok
        THEN Outcome(r3.k, Some("set_process_affinity"), succ,
                     <<Call("set_scheduler", TRUE)>> \o c2
                         \o <<Call("set_process_affinity", FALSE)>>)
        ELSE IF preset.affinity_cores.some
        THEN Outcome(r3.k, NoMsg, Some(preset.name),
                     <<Call("set_scheduler", TRUE)>> \o c2
                         \o <<Call("set_process_affinity", TRUE)>>)
        ELSE Outcome(k2, NoMsg, Some(preset.name), <<Call("set_scheduler", TRUE)>> \o c2)

apply_scheduler(k, err, succ, policy, priority, perm) ==
    IF is_realtime(policy)
    THEN LET r1 == set_scheduler(k, policy, priority, perm.sched)
         IN  IF r1.ok
             THEN Outcome(r1.k, NoMsg, Some("scheduler"), <<Call("set_scheduler", TRUE)>>)
             ELSE Outcome(r1.k, Some("set_scheduler"), NoMsg, <<Call("set_scheduler", FALSE)>>)
    ELSE LET r1 == set_scheduler(k, policy, 0, perm.sched)
             r2 == set_process_nice(r1.k, priority, perm.nice)
         IN  IF ~r1.ok
             THEN Outcome(r1.k, Some("set_scheduler"), NoMsg, <<Call("set_scheduler", FALSE)>>)
             ELSE IF priority # 0 /\ ~r2.ok
             THEN Outcome(r2.k, Some("set_process_nice"), succ,
                          <<Call("set_scheduler", TRUE), Call("set_process_nice", FALSE)>>)
             ELSE IF priority # 0
             THEN Outcome(r2.k, NoMsg, Some("scheduler"),
                          <<Call("set_scheduler", TRUE), Call("set_process_nice", TRUE)>>)
             ELSE Outcome(r1.k, NoMsg, Some("scheduler"), <<Call("set_scheduler", TRUE)>>)

(***************************************************************************)
(* ProcessManager (system/process.rs)                                      *)
(***************************************************************************)
\* the characters process names and filters are made of, in byte order
CharOrder == <<" ", "1", "2", "A", "B", "a", "b">>

CharCode(c) ==
    CHOOSE i \in 1..Len(CharOrder) : CharOrder[i] = c

\* char::to_lowercase
LowerChar(c) ==
    IF c = "A" THEN "a" ELSE IF c = "B" THEN "b" ELSE c

\* str::to_lowercase
to_lowercase(s) ==
    [i \in 1..Len(s) |-> LowerChar(s[i])]

\* <str as Ord>::cmp(a, b) = Less
RECURSIVE StrLess(_, _)
StrLess(a, b) ==
    IF b = <<>> THEN FALSE
    ELSE IF a = <<>> THEN TRUE
    ELSE IF a[1] = b[1] THEN StrLess(Tail(a), Tail(b))
    ELSE CharCode(a[1]) < CharCode(b[1])

\* [String]::join(" ")
RECURSIVE join(_)
join(tokens) ==
    IF tokens = <<>> THEN <<>>
    ELSE IF Len(tokens) = 1 THEN tokens[1]
    ELSE tokens[1] \o <<" ">> \o join(Tail(tokens))

\* one entry of sysinfo's process table, with the scheduling state the OS
\* holds for that pid
LiveProcess(pid, name, cmd, cpu_usage, memory, policy, nice) ==
    [pid |-> pid, name |-> name, cmd |-> cmd, cpu_usage |-> cpu_usage,
     memory |-> memory, policy |-> policy, nice |-> nice]

\* ProcessInfo::from_process
from_process(process) ==
    LET cmd_str == join(process.cmd)
        info    == get_scheduler_info([policy |-> process.policy, nice |-> process.nice], TRUE)
    IN  [pid |-> process.pid,
         name |-> process.name,
         cmd |-> IF cmd_str = <<>> THEN process.name ELSE cmd_str,
         cpu_usage |-> process.cpu_usage,
         memory |-> process.memory,
         sched_policy |-> info.policy,
         priority |-> info.priority]

\* the comparison ProcessManager::sort hands to sort_by / sort_by_key
SortLess(field, a, b) ==
    CASE field = "Pid" -> a.pid < b.pid
      [] field = "Name" -> StrLess(a.name, b.name)
      [] field = "CpuUsage" -> a.cpu_usage < b.cpu_usage
      [] field = "Memory" -> a.memory < b.memory

\* slice::sort_by is stable: x goes before the first element greater than it
InsertStable(sorted, x, field) ==
    LET later == {i \in 1..Len(sorted) : SortLess(field, x, sorted[i])}
        at    == IF later = {} THEN Len(sorted) + 1
                 ELSE CHOOSE i \in later : \A j \in later : i <= j
    IN  SubSeq(sorted, 1, at - 1) \o <<x>> \o SubSeq(sorted, at, Len(sorted))

RECURSIVE SortStable(_, _)
SortStable(seq, field) ==
    IF seq = <<>> THEN <<>>
    ELSE InsertStable(SortStable(SubSeq(seq, 1, Len(seq) - 1), field),
                      seq[Len(seq)], field)

\* Vec::reverse
reverse(seq) ==
    [i \in 1..Len(seq) |-> seq[Len(seq) + 1 - i]]

\* ProcessManager::sort
sort(self) ==
    LET ascending == SortStable(self.processes, self.sort_by)
    IN  [self EXCEPT !.processes = IF self.sort_desc THEN reverse(ascending)
                                   ELSE ascending]

\* ProcessManager::new
new ==
    [processes |-> <<>>, filter |-> <<>>, sort_by |-> "CpuUsage", sort_desc |-> TRUE]

\* update that keeps the old records of pids it does not see any more
update_keep_old(self, enumeration) ==
    LET fresh == [i \in 1..Len(enumeration) |-> from_process(enumeration[i])]
        stale == SelectSeq(self.processes,
                           LAMBDA p : \A i \in 1..Len(fresh) : fresh[i].pid # p.pid)
    IN  sort([self EXCEPT !.processes = fresh \o stale])

\* ProcessManager::update; enumeration is the order sys.processes() yields
update(self, enumeration) ==
    LET new_processes == [i \in 1..Len(enumeration) |-> from_process(enumeration[i])]
    IN  sort([self EXCEPT !.processes = new_processes])

\* filtered_processes that does not lowercase the filter
filtered_processes_raw_filter(self) ==
    SelectSeq(self.processes,
              LAMBDA p : IF self.filter = <<>> THEN TRUE
                         ELSE \/ contains(to_lowercase(p.name), self.filter)
                              \/ contains(to_lowercase(p.cmd), self.filter)
                              \/ contains(to_string(p.pid), self.filter))

\* ProcessManager::filtered_processes
filtered_processes(self) ==
    LET filter_lower == to_lowercase(self.filter)
    IN  SelectSeq(self.processes,
                  LAMBDA p : IF self.filter = <<>> THEN TRUE
                             ELSE \/ contains(to_lowercase(p.name), filter_lower)
                                  \/ contains(to_lowercase(p.cmd), filter_lower)
                                  \/ contains(to_string(p.pid), filter_lower))

\* ProcessManager::set_filter
set_filter(self, new_filter) ==
    [self EXCEPT !.filter = new_filter]

\* set_sort that keeps the direction when the field changes
set_sort_keep_direction(self, field) ==
    IF self.sort_by = field
    THEN sort([self EXCEPT !.sort_desc = ~self.sort_desc])
    ELSE sort([self EXCEPT !.sort_by = field])

\* set_sort without the trailing self.sort()
set_sort_no_sort(self, field) ==
    IF self.sort_by = field
    THEN [self EXCEPT !.sort_desc = ~self.sort_desc]
    ELSE [self EXCEPT !.sort_by = field, !.sort_desc = TRUE]

\* ProcessManager::set_sort
set_sort(self, field) ==
    IF self.sort_by = field
    THEN sort([self EXCEPT !.sort_desc = ~self.sort_desc])
    ELSE sort([self EXCEPT !.sort_by = field, !.sort_desc = TRUE])

(***************************************************************************)
(* The CpuUsage arm of ProcessManager::sort on f32 values that may be NaN  *)
(* (system/process.rs).  An f32 is a number or NaN.                        *)
(***************************************************************************)
F32(val) ==
    [nan |-> FALSE, val |-> val]

NaN ==
    [nan |-> TRUE, val |-> 0]

\* f32::partial_cmp: None when either side is NaN
partial_cmp(a, b) ==
    IF a.nan \/ b.nan THEN [some |-> FALSE, val |-> "Equal"]
    ELSE Some(IF a.val < b.val THEN "Less"
              ELSE IF a.val > b.val THEN "Greater" ELSE "Equal")

\* the closure handed to sort_by
compare_cpu_usage(a, b) ==
    unwrap_or(partial_cmp(a.cpu_usage, b.cpu_usage), "Equal")

\* the comparison slice::sort_by derives from the closure
is_less(a, b) ==
    compare_cpu_usage(a, b) = "Less"

\* insertion of x at the tail of a sorted run: x moves left past every
\* element it is less than, and stops at the first it is not less than
insert_tail(sorted, x) ==
    LET stops == {j \in 1..Len(sorted) : ~is_less(x, sorted[j])}
        at    == IF stops = {} THEN 0
                 ELSE CHOOSE j \in stops : \A k \in stops : k <= j
    IN  SubSeq(sorted, 1, at) \o <<x>> \o SubSeq(sorted, at + 1, Len(sorted))

\* insertion of x at the head of a sorted run: x moves right past every
\* element that is less than it, and stops at the first that is not
insert_head(x, sorted) ==
    LET stops == {j \in 1..Len(sorted) : ~is_less(sorted[j], x)}
        at    == IF stops = {} THEN Len(sorted) + 1
                 ELSE CHOOSE j \in stops : \A k \in stops : j <= k
    IN  SubSeq(sorted, 1, at - 1) \o <<x>> \o SubSeq(sorted, at, Len(sorted))

\* slice::sort_by on a short slice, as the standard library sorts it since
\* 1.81: insertion sort growing the sorted run from the front
RECURSIVE insertion_sort_shift_left(_)
insertion_sort_shift_left(v) ==
    IF v = <<>> THEN <<>>
    ELSE insert_tail(insertion_sort_shift_left(SubSeq(v, 1, Len(v) - 1)), v[Len(v)])

\* the same before 1.81: insertion sort growing the sorted run from the back
RECURSIVE insertion_sort_from_back(_)
insertion_sort_from_back(v) ==
    IF v = <<>> THEN <<>>
    ELSE insert_head(v[1], insertion_sort_from_back(Tail(v)))

\* ProcessManager::sort with sort_by = CpuUsage: the orders the toolchains
\* leave a slice of up to 20 elements in
sort_by_cpu_usage(v, desc) ==
    {IF desc THEN reverse(out) ELSE out :
        out \in {insertion_sort_shift_left(v), insertion_sort_from_back(v)}}

(***************************************************************************)
(* RingBuffer and CpuHistory (utils/ring_buffer.rs).  A VecDeque is a      *)
(* sequence, front first.                                                  *)
(***************************************************************************)
\* RingBuffer::new
ring_new(capacity) ==
    [data |-> <<>>, capacity |-> capacity]

\* VecDeque::pop_front, the popped value dropped
pop_front(data) ==
    IF data = <<>> THEN <<>> ELSE Tail(data)

\* RingBuffer::push
ring_push(self, value) ==
    LET kept == IF Len(self.data) >= self.capacity THEN pop_front(self.data)
                ELSE self.data
    IN  [self EXCEPT !.data = Append(kept, value)]

\* RingBuffer::to_vec
to_vec(self) ==
    self.data

\* RingBuffer::len
ring_len(self) ==
    Len(self.data)

\* RingBuffer::capacity
capacity(self) ==
    self.capacity

\* RingBuffer::latest
latest(self) ==
    IF self.data = <<>> THEN NoneNum ELSE Some(self.data[Len(self.data)])

\* RingBuffer::oldest
oldest(self) ==
    IF self.data = <<>> THEN NoneNum ELSE Some(self.data[1])

\* CpuHistory::new
history_new(core_count, history_size) ==
    [core_history  |-> [i \in 1..core_count |-> ring_new(history_size)],
     total_history |-> ring_new(history_size),
     timestamps    |-> ring_new(history_size)]

\* CpuHistory::push: usages beyond core_history.len() are dropped, a core
\* beyond core_usages.len() gets nothing
history_push(self, core_usages, total_usage, timestamp) ==
    [core_history  |-> [i \in 1..Len(self.core_history) |->
                           IF i <= Len(core_usages)
                           THEN ring_push(self.core_history[i], core_usages[i])
                           ELSE self.core_history[i]],
     total_history |-> ring_push(self.total_history, total_usage),
     timestamps    |-> ring_push(self.timestamps, timestamp)]

\* Iterator::zip, then map to [t, u]
zip(times, values) ==
    [i \in 1..(IF Len(times) < Len(values) THEN Len(times) ELSE Len(values)) |->
        <<times[i], values[i]>>]

\* CpuHistory::plot_data
plot_data(self) ==
    zip(to_vec(self.timestamps), to_vec(self.total_history))

\* CpuHistory::core_plot_data
core_plot_data(self, core_id) ==
    IF core_id < Len(self.core_history)
    THEN zip(to_vec(self.timestamps), to_vec(self.core_history[core_id + 1]))
    ELSE <<>>

\* CpuHistory::len
history_len(self) ==
    ring_len(self.total_history)

(***************************************************************************)
(* HexinApp::update_data (app.rs).  Instants are milliseconds of the       *)
(* monotonic clock; self.log counts the calls made on the sysinfo handle   *)
(* and on the history.                                                     *)
(***************************************************************************)
PROCESS_INTERVAL_MS == 1000

\* Instant::duration_since, which saturates at zero
duration_since(instant, earlier) ==
    IF instant >= earlier THEN instant - earlier ELSE 0

\* Duration::as_secs_f64
as_secs_f64(millis) ==
    Frac(millis, 1000)

\* the CPU branch of update_data
refresh_cpu(self, instant, cpus) ==
    LET info        == cpu_info_update(self.cpu_info, cpus)
        core_usages == [i \in 1..Len(info.cores) |-> info.cores[i].usage_percent]
        timestamp   == as_secs_f64(duration_since(instant, self.start_time))
    IN  [self EXCEPT
            !.last_cpu_update = instant,
            !.cpu_info = info,
            !.cpu_history = history_push(self.cpu_history, core_usages,
                                         info.total_usage_percent, timestamp),
            !.log = [self.log EXCEPT !.refreshes = @ + 1, !.samples = @ + 1]]

\* update_data whose process branch also restarts the CPU timer
update_data_one_timer(self, instant, cpus, enumeration) ==
    LET cpu_elapsed == duration_since(instant, self.last_cpu_update)
        s1 == IF cpu_elapsed >= self.refresh_interval_ms
              THEN refresh_cpu(self, instant, cpus)
              ELSE self
        process_elapsed == duration_since(instant, s1.last_process_update)
        s2 == IF process_elapsed >= PROCESS_INTERVAL_MS
              THEN [s1 EXCEPT
                       !.last_process_update = instant,
                       !.last_cpu_update = instant,
                       !.process_manager = update(s1.process_manager, enumeration),
                       !.log = [s1.log EXCEPT !.rebuilds = @ + 1]]
              ELSE s1
    IN  [s2 EXCEPT !.log = [s2.log EXCEPT !.updates = @ + 1]]

\* HexinApp::update_data; instant is Instant::now(), cpus and enumeration
\* are what the sysinfo handle reports when it is refreshed
update_data(self, instant, cpus, enumeration) ==
    LET cpu_elapsed == duration_since(instant, self.last_cpu_update)
        s1 == IF cpu_elapsed >= self.refresh_interval_ms
              THEN refresh_cpu(self, instant, cpus)
              ELSE self
        process_elapsed == duration_since(instant, s1.last_process_update)
        s2 == IF process_elapsed >= PROCESS_INTERVAL_MS
              THEN [s1 EXCEPT
                       !.last_process_update = instant,
                       !.process_manager = update(s1.process_manager, enumeration),
                       !.log = [s1.log EXCEPT !.rebuilds = @ + 1]]
              ELSE s1
    IN  [s2 EXCEPT !.log = [s2.log EXCEPT !.updates = @ + 1]]

(***************************************************************************)
(* ProcessListPanel: the affinity editor of a process row                  *)
(* (ui/process_list.rs).  self is the panel, k the scheduling state the OS *)
(* holds for the process of the row.                                       *)
(***************************************************************************)
\* the checkboxes the editor shows
MAX_SHOWN_CORES == 8

\* a facade call with the core list it was given
AffinityCall(cores, ok) ==
    [fn |-> "set_process_affinity", cores |-> cores, ok |-> ok]

\* what an event of the editor leaves: the panel, the OS state, the calls
Handled(self, k, made) ==
    [self |-> self, kernel |-> k, made |-> made]

\* draw_process_row: a click on the affinity button of a row not being edited
draw_process_row_clicked(self, pid, affinity, logical_cores) ==
    [self EXCEPT
        !.editing_affinity = Some(pid),
        !.affinity_selection =
            [i \in 1..logical_cores |->
                \E n \in 1..Len(affinity) :
                    affinity[n] < logical_cores /\ affinity[n] = i - 1]]

\* .iter().enumerate().filter(|(_, &selected)| selected).map(|(i, _)| i)
RECURSIVE selected_cores(_, _)
selected_cores(selection, i) ==
    IF i > Len(selection) THEN <<>>
    ELSE (IF selection[i] THEN <<i - 1>> ELSE <<>>) \o selected_cores(selection, i + 1)

\* the confirm button handing the selection to the facade as it is
draw_affinity_editor_confirm_unchecked(self, k, pid, online, permitted) ==
    LET cores == selected_cores(self.affinity_selection, 1)
        r     == set_process_affinity(k, cores, online, permitted)
    IN  IF r.ok
        THEN Handled([self EXCEPT !.editing_affinity = NoneNum, !.error_message = NoMsg],
                     r.k, <<AffinityCall(cores, TRUE)>>)
        ELSE Handled([self EXCEPT !.error_message = Some("set_process_affinity")],
                     r.k, <<AffinityCall(cores, FALSE)>>)

\* draw_affinity_editor: the confirm button
draw_affinity_editor_confirm(self, k, pid, online, permitted) ==
    LET cores == selected_cores(self.affinity_selection, 1)
        r     == set_process_affinity(k, cores, online, permitted)
    IN  IF cores = <<>>
        THEN Handled([self EXCEPT !.error_message = Some("select_a_core")], k, <<>>)
        ELSE IF r.ok
        THEN Handled([self EXCEPT !.editing_affinity = NoneNum, !.error_message = NoMsg],
                     r.k, <<AffinityCall(cores, TRUE)>>)
        ELSE Handled([self EXCEPT !.error_message = Some("set_process_affinity")],
                     r.k, <<AffinityCall(cores, FALSE)>>)

\* draw_affinity_editor: the cancel button
draw_affinity_editor_cancel(self) ==
    [self EXCEPT !.editing_affinity = NoneNum]

(***************************************************************************)
(* Specification of the scheduler panel acting on one process              *)
(***************************************************************************)
PmOp(name, arg, prev) ==
    [name |-> name, arg |-> arg, prev |-> prev]

\* the process manager at rest
ProcIdle ==
    /\ sys = {}
    /\ processes = <<>>
    /\ filter = <<>>
    /\ sort_by = "CpuUsage"
    /\ sort_desc = TRUE
    /\ view = <<>>
    /\ pop = PmOp("new", <<>>, <<>>)

NoIndex3 ==
    [exists |-> FALSE, id |-> NoFile, size |-> NoFile, shared_cpu_list |-> NoFile]

\* a machine on which nothing but the cpus themselves can be read
BareHost ==
    [ncpus                |-> NumCores,
     cpu_arch             |-> NoneList,
     cpuinfo              |-> NoFile,
     core_siblings_list   |-> NoFile,
     nodes                |-> NoneList,
     base_frequency       |-> NoFile,
     cpuinfo_min_freq     |-> NoFile,
     cpuinfo_max_freq     |-> NoFile,
     core_id              |-> [c \in 0..(NumCores - 1) |-> NoFile],
     physical_package_id  |-> [c \in 0..(NumCores - 1) |-> NoFile],
     index2_size          |-> [c \in 0..(NumCores - 1) |-> NoFile]]

NoCpuInfo ==
    [model_name |-> <<>>, vendor |-> "Other", physical_cores |-> 0,
     logical_cores |-> 0, smt_enabled |-> FALSE, cores |-> <<>>,
     l3_caches |-> <<>>, base_frequency_mhz |-> U64(0),
     max_frequency_mhz |-> U64(0), total_usage_percent |-> Frac(0, 1)]

CpuOp(name, arg, prev) ==
    [name |-> name, arg |-> arg, prev |-> prev]

\* the detector at rest
CpuIdle ==
    /\ sysfs = [c \in 0..(NumCores - 1) |-> NoIndex3]
    /\ host = BareHost
    /\ cpu_info = NoCpuInfo
    /\ vcache = <<>>
    /\ cpc = "boot"
    /\ cop = CpuOp("none", <<>>, NoCpuInfo)

\* a release build for Linux
BuildIdle ==
    /\ overflow_checks = FALSE
    /\ target_os = "linux"

\* a call that returned v
Returned(v) ==
    [panic |-> FALSE, val |-> v]

\* parse_cache_size at rest
SizeIdle ==
    /\ size_text = <<>>
    /\ size_ret = Returned(U64(0))
    /\ spc = "ready"

\* a call of a facade function, with its arguments in the order of the source
FacadeCall(fn, args) ==
    [fn |-> fn, args |-> args]

\* the facade before any direct call
FacadeIdle ==
    /\ fcall = FacadeCall("none", <<>>)
    /\ fret = [ok |-> TRUE, val |-> <<>>]
    /\ syscalls = <<>>

\* a ring buffer nothing was pushed into
RingIdle ==
    /\ ring = ring_new(0)
    /\ pushed = <<>>

\* the history of a machine without cpus
HistIdle ==
    /\ cpu_history = history_new(0, 0)
    /\ hpushes = <<>>

\* what the update_data calls have done: how many there were, how many
\* refreshed the CPU data, rebuilt the process list, recorded a sample
AppOp(updates, refreshes, rebuilds, samples) ==
    [updates |-> updates, refreshes |-> refreshes, rebuilds |-> rebuilds,
     samples |-> samples]

\* the application clock at rest
AppIdle ==
    /\ now = 0
    /\ start_time = 0
    /\ last_cpu_update = 0
    /\ last_process_update = 0
    /\ refresh_interval_ms = 500
    /\ aop = AppOp(0, 0, 0, 0)

\* nothing to sort
CmpIdle ==
    /\ usages = <<>>
    /\ ordered = {}
    /\ qpc = "ready"

\* an affinity editor event: its name, its argument, the facade calls made
EditOp(name, arg, made) ==
    [name |-> name, arg |-> arg, made |-> made]

\* ProcessListPanel::new
EditIdle ==
    /\ editing_affinity = NoneNum
    /\ affinity_selection = <<>>
    /\ list_error = NoMsg
    /\ eop = EditOp("new", <<>>, <<>>)

UtilIdle ==
    /\ RingIdle
    /\ HistIdle
    /\ AppIdle
    /\ CmpIdle
    /\ EditIdle

TargetPid == 4242

Online ==
    0..(NumCores - 1)

AllCoresSeq ==
    [i \in 1..NumCores |-> i - 1]

\* what CpuInfo::vcache_cores() may hand to SchedulerPanel::new
VcacheChoices ==
    {<<>>, <<0>>, AllCoresSeq}

\* positions the priority slider is dragged to
PriorityChoices ==
    {-10, 0, 50}

Perms ==
    [sched : BOOLEAN, nice : BOOLEAN, aff : BOOLEAN]

Op(name, arg) ==
    [name |-> name, arg |-> arg]

SchedIdle ==
    /\ kernel = [policy |-> SCHED_OTHER, rtprio |-> 0, nice |-> 0, affinity |-> Online]
    /\ selected_pid = NoneNum
    /\ editing_policy = Policy("Other")
    /\ editing_priority = 0
    /\ presets = <<>>
    /\ error_message = NoMsg
    /\ success_message = NoMsg
    /\ op = Op("init", 0)
    /\ calls = <<>>
    /\ before = kernel

\* SchedulerPanel::new; the process runs under SCHED_OTHER or SCHED_DEADLINE
SchedInit ==
    /\ \E raw \in {SCHED_OTHER, SCHED_DEADLINE} :
           kernel = [policy |-> raw, rtprio |-> 0, nice |-> 0, affinity |-> Online]
    /\ selected_pid = NoneNum
    /\ editing_policy = Policy("Other")
    /\ editing_priority = 0
    /\ \E vc \in VcacheChoices : presets = builtin_presets(vc, NumCores)
    /\ error_message = NoMsg
    /\ success_message = NoMsg
    /\ op = Op("init", 0)
    /\ calls = <<>>
    /\ before = kernel
    /\ ParseIdle
    /\ ProcIdle
    /\ CpuIdle
    /\ BuildIdle
    /\ SizeIdle
    /\ FacadeIdle
    /\ UtilIdle

\* an edit of the panel is not an operation on the process
NoOperation(name) ==
    /\ op' = Op(name, 0)
    /\ calls' = <<>>
    /\ before' = kernel
    /\ UNCHANGED <<kernel, presets>>
    /\ UNCHANGED <<parseVars, procVars, cpuVars, buildVars, sizeVars, facadeVars, utilVars>>

\* draw_process_selector: a click on a row of the process list
SelectProcess ==
    /\ \E readable \in BOOLEAN :
           LET info == get_scheduler_info(kernel, readable)
           IN  /\ editing_policy' = info.policy
               /\ editing_priority' = info.priority
    /\ selected_pid' = Some(TargetPid)
    /\ UNCHANGED <<error_message, success_message>>
    /\ NoOperation("select")

\* draw_scheduler_config: the policy ComboBox
ChoosePolicy ==
    /\ \E i \in 1..Len(all) : editing_policy' = all[i]
    /\ UNCHANGED <<selected_pid, editing_priority, error_message, success_message>>
    /\ NoOperation("policy")

\* draw_scheduler_config: the priority slider, over the range of the policy
DragPriority ==
    /\ \E v \in PriorityChoices :
           /\ IF is_realtime(editing_policy)
              THEN v \in RT_PRIO_MIN..RT_PRIO_MAX
              ELSE v \in MIN_NICE..MAX_NICE
           /\ editing_priority' = v
    /\ UNCHANGED <<selected_pid, editing_policy, error_message, success_message>>
    /\ NoOperation("priority")

\* draw_messages: the close button of the error banner
DismissError ==
    /\ error_message.some
    /\ error_message' = NoMsg
    /\ UNCHANGED <<selected_pid, editing_policy, editing_priority, success_message>>
    /\ NoOperation("dismiss")

\* draw_messages: the close button of the success banner
DismissSuccess ==
    /\ success_message.some
    /\ success_message' = NoMsg
    /\ UNCHANGED <<selected_pid, editing_policy, editing_priority, error_message>>
    /\ NoOperation("dismiss")

Ran(name, arg, out) ==
    /\ kernel' = out.kernel
    /\ error_message' = out.error_message
    /\ success_message' = out.success_message
    /\ calls' = out.calls
    /\ op' = Op(name, arg)
    /\ before' = kernel

\* draw_scheduler_config: the apply button
ApplyScheduler ==
    /\ IF selected_pid.some
       THEN \E perm \in Perms :
                Ran("apply_scheduler", 0,
                    apply_scheduler(kernel, error_message, success_message,
                                    editing_policy, editing_priority, perm))
       ELSE /\ error_message' = Some("no_pid")
            /\ UNCHANGED <<kernel, success_message>>
            /\ op' = Op("no_pid", 0)
            /\ calls' = <<>>
            /\ before' = kernel
    /\ UNCHANGED <<selected_pid, editing_policy, editing_priority, presets>>
    /\ UNCHANGED <<parseVars, procVars, cpuVars, buildVars, sizeVars, facadeVars, utilVars>>

\* draw_presets: the apply button of a preset
ApplyPreset ==
    /\ \E i \in 1..Len(presets) :
           IF selected_pid.some
           THEN \E perm \in Perms :
                    Ran("apply_preset", i,
                        apply_preset(kernel, error_message, success_message,
                                     presets[i], Online, perm))
           ELSE /\ error_message' = Some("no_pid")
                /\ UNCHANGED <<kernel, success_message>>
                /\ op' = Op("no_pid", 0)
                /\ calls' = <<>>
                /\ before' = kernel
    /\ UNCHANGED <<selected_pid, editing_policy, editing_priority, presets>>
    /\ UNCHANGED <<parseVars, procVars, cpuVars, buildVars, sizeVars, facadeVars, utilVars>>

SchedNext ==
    \/ SelectProcess
    \/ ChoosePolicy
    \/ DragPriority
    \/ DismissError
    \/ DismissSuccess
    \/ ApplyScheduler
    \/ ApplyPreset

SpecSched ==
    SchedInit /\ [][SchedNext]_vars

(***************************************************************************)
(* Specification of the process manager                                    *)
(***************************************************************************)
\* the processes the OS may show; pid 1 is reused by a different program
ProcUniverse ==
    { LiveProcess(1, <<"a">>, <<>>, 0, 2, SCHED_OTHER, 0),
      LiveProcess(12, <<"A", "b">>, << <<"A", "b">>, <<"b">> >>, 5, 1, SCHED_FIFO, 0),
      LiveProcess(2, <<"B">>, << <<"b", "1">> >>, 5, 2, SCHED_OTHER, -10),
      LiveProcess(1, <<"b">>, << <<"B">> >>, 9, 0, SCHED_DEADLINE, 0) }

\* sys.processes() is a map keyed by pid
LiveTables ==
    {T \in SUBSET ProcUniverse :
        /\ Cardinality(T) <= MaxProcs
        /\ \A p, q \in T : p.pid = q.pid => p = q}

\* the orders in which the map may be iterated
Enumerations(T) ==
    {e \in [1..Cardinality(T) -> T] : \A i, j \in 1..Cardinality(T) : e[i] = e[j] => i = j}

SortFields ==
    {"Pid", "Name", "CpuUsage", "Memory"}

\* what is typed into the search box
FilterChoices ==
    {<<>>, <<"a">>, <<"B">>, <<"1">>, <<"b", " ">>}

Self ==
    [processes |-> processes, filter |-> filter, sort_by |-> sort_by,
     sort_desc |-> sort_desc]

Becomes(self) ==
    /\ processes' = self.processes
    /\ filter' = self.filter
    /\ sort_by' = self.sort_by
    /\ sort_desc' = self.sort_desc

ProcInit ==
    /\ sys = {}
    /\ processes = new.processes
    /\ filter = new.filter
    /\ sort_by = new.sort_by
    /\ sort_desc = new.sort_desc
    /\ view = <<>>
    /\ pop = PmOp("new", <<>>, <<>>)
    /\ ParseIdle
    /\ SchedIdle
    /\ CpuIdle
    /\ BuildIdle
    /\ SizeIdle
    /\ FacadeIdle
    /\ UtilIdle

\* HexinApp::update_data, process branch: refresh_processes, then update
Update ==
    /\ \E T \in LiveTables :
           /\ sys' = T
           /\ \E e \in Enumerations(T) : Becomes(update(Self, e))
    /\ view' = <<>>
    /\ pop' = PmOp("update", <<>>, processes)
    /\ UNCHANGED <<parseVars, schedVars, cpuVars, buildVars, sizeVars, facadeVars, utilVars>>

\* the search box of the process list calls set_filter
SetFilter ==
    /\ \E f \in FilterChoices :
           /\ Becomes(set_filter(Self, f))
           /\ pop' = PmOp("set_filter", f, <<>>)
    /\ view' = <<>>
    /\ UNCHANGED sys
    /\ UNCHANGED <<parseVars, schedVars, cpuVars, buildVars, sizeVars, facadeVars, utilVars>>

\* a click on a column header calls set_sort
SetSort ==
    /\ \E field \in SortFields :
           /\ Becomes(set_sort(Self, field))
           /\ pop' = PmOp("set_sort", <<field>>, <<>>)
    /\ view' = <<>>
    /\ UNCHANGED sys
    /\ UNCHANGED <<parseVars, schedVars, cpuVars, buildVars, sizeVars, facadeVars, utilVars>>

\* a panel reads the list through filtered_processes
FilteredProcesses ==
    /\ view' = filtered_processes(Self)
    /\ pop' = PmOp("filtered_processes", <<>>, <<>>)
    /\ UNCHANGED <<sys, processes, filter, sort_by, sort_desc>>
    /\ UNCHANGED <<parseVars, schedVars, cpuVars, buildVars, sizeVars, facadeVars, utilVars>>

ProcNext ==
    \/ Update
    \/ SetFilter
    \/ SetSort
    \/ FilteredProcesses

SpecProc ==
    ProcInit /\ [][ProcNext]_vars

(***************************************************************************)
(* Specification of the topology detector                                  *)
(***************************************************************************)
File(text) ==
    Some(text)

\* contents of /sys/devices/system/cpu/cpuN/cache/index3/id
IdFiles ==
    {File(<<"0", "\n">>), File(<<"1", "\n">>), NoFile}

\* contents of .../index3/size
SizeFiles ==
    {File(<<"3", "2", "7", "6", "8", "K", "\n">>), File(<<"9", "6", "M", "\n">>)}

\* contents of .../index3/shared_cpu_list
SharedFiles ==
    {File(<<"0", "-", "1", "\n">>), File(<<"1", "\n">>),
     File(<<"1", "-", "2", "\n">>), NoFile}

\* sizes at the V-Cache threshold, and one of 2^54 MB
EdgeSizeFiles ==
    {File(<<"6", "4", "M", "\n">>), File(<<"6", "5", "5", "3", "7", "K", "\n">>),
     File(<<"1", "8", "0", "1", "4", "3", "9", "8", "5", "0", "9", "4", "8", "1", "9", "8", "4", "M", "\n">>)}

\* cpu lists that are empty, malformed, or run up to usize::MAX
EdgeSharedFiles ==
    {File(<<>>), File(<<"x", "\n">>),
     File(<<"0", "-", "1", "8", "4", "4", "6", "7", "4", "4", "0", "7", "3", "7", "0", "9", "5", "5", "1", "6", "1", "5", "\n">>)}

Index3Dirs ==
    {NoIndex3}
    \cup [exists : {TRUE}, id : IdFiles, size : SizeFiles, shared_cpu_list : SharedFiles]
    \cup [exists : {TRUE}, id : {File(<<"0", "\n">>)}, size : EdgeSizeFiles,
          shared_cpu_list : {File(<<"0", "-", "1", "\n">>)}]
    \cup [exists : {TRUE}, id : {File(<<"1", "\n">>)},
          size : {File(<<"9", "6", "M", "\n">>)}, shared_cpu_list : EdgeSharedFiles]

\* the two orders a HashMap may yield the cache ids 0 and 1 in
HashOrders ==
    {<<0, 1>>, <<1, 0>>}

\* an AMD machine with one NUMA node and cpufreq limits
AmdHost ==
    [BareHost EXCEPT
        !.cpu_arch = Some(<<"x", "8", "6", "_", "6", "4">>),
        !.cpuinfo = File(<<"v", "e", "n", "d", "o", "r", "_", "i", "d", "\t", ":", " ", "A", "u", "t", "h", "e", "n", "t", "i", "c", "A", "M", "D", "\n", "m", "o", "d", "e", "l", " ", "n", "a", "m", "e", "\t", ":", " ", "R", "y", "z", "e", "n", "\n">>),
        !.nodes = Some(<<[name |-> <<"p", "o", "s", "s", "i", "b", "l", "e">>, cpulist |-> NoFile],
                         [name |-> <<"n", "o", "d", "e", "0">>, cpulist |-> File(<<"0", "-", "1", "\n">>)]>>),
        !.cpuinfo_min_freq = File(<<"4", "0", "0", "0", "0", "0", "\n">>),
        !.cpuinfo_max_freq = File(<<"5", "0", "0", "0", "0", "0", "0", "\n">>),
        !.core_id = [c \in 0..(NumCores - 1) |-> File(to_string(c \div 2) \o <<"\n">>)],
        !.physical_package_id = [c \in 0..(NumCores - 1) |-> File(<<"0", "\n">>)],
        !.index2_size = [c \in 0..(NumCores - 1) |-> File(<<"1", "0", "2", "4", "K", "\n">>)]]

\* an Intel hybrid machine: cpu 0 a P-core, the others E-cores, two NUMA
\* nodes listed in reverse
IntelHost ==
    [BareHost EXCEPT
        !.cpu_arch = Some(<<"x", "8", "6", "_", "6", "4">>),
        !.cpuinfo = File(<<"p", "r", "o", "c", "e", "s", "s", "o", "r", "\t", ":", " ", "0", "\n", "v", "e", "n", "d", "o", "r", "_", "i", "d", "\t", ":", " ", "G", "e", "n", "u", "i", "n", "e", "I", "n", "t", "e", "l", "\n">>),
        !.nodes = Some(<<[name |-> <<"n", "o", "d", "e", "1">>, cpulist |-> File(<<"1", "-", "2", "\n">>)],
                         [name |-> <<"n", "o", "d", "e", "0">>, cpulist |-> File(<<"0", "-", "1", "\n">>)]>>),
        !.base_frequency = File(<<"3", "4", "0", "0", "0", "0", "0", "\n">>),
        !.cpuinfo_min_freq = File(<<"8", "0", "0", "0", "0", "0", "\n">>),
        !.cpuinfo_max_freq = File(<<"1", "8", "4", "4", "6", "7", "4", "4", "0", "7", "3", "7", "0", "9", "5", "5", "1", "6", "1", "5", "\n">>),
        !.index2_size = [c \in 0..(NumCores - 1) |->
                            IF c = 0 THEN File(<<"2", "0", "4", "8", "K", "\n">>) ELSE File(<<"1", "M", "\n">>)]]

\* contents of /sys/devices/system/cpu/cpu0/topology/core_siblings_list
SiblingFiles ==
    {NoFile, File(<<"0", "-", "1", "\n">>), File(<<"0", "\n">>)}

\* the machines topology is detected on: sys.cpus() may be empty
TopoHosts ==
    {[h EXCEPT !.ncpus = n, !.core_siblings_list = f] :
        h \in {BareHost, AmdHost, IntelHost}, n \in 0..NumCores, f \in SiblingFiles}

\* two L3 caches, the first a V-Cache
TopoIndex3Dirs ==
    {NoIndex3,
     [exists |-> TRUE, id |-> File(<<"0", "\n">>), size |-> File(<<"9", "6", "M", "\n">>), shared_cpu_list |-> File(<<"0", "-", "1", "\n">>)],
     [exists |-> TRUE, id |-> File(<<"1", "\n">>), size |-> File(<<"3", "2", "7", "6", "8", "K", "\n">>), shared_cpu_list |-> File(<<"1", "\n">>)]}

\* one entry of sys.cpus() after refresh_cpu_all
Cpu(cpu_usage, frequency) ==
    [cpu_usage |-> cpu_usage, frequency |-> frequency]

\* what refresh_cpu_all may report: every cpu at 60 %, or the i-th at 30*i %
LiveSamples ==
    {[i \in 1..k |-> Cpu(60, 3000)] : k \in 0..(NumCores + 1)}
    \cup {[i \in 1..k |-> Cpu(30 * i, 1000 + i)] : k \in 0..(NumCores + 1)}

\* the machine the L3 caches are detected on: the cache/index3 files vary,
\* every other file detect() reads is unreadable
CpuInit ==
    /\ sysfs \in [0..(NumCores - 1) -> Index3Dirs]
    /\ host = BareHost
    /\ cpu_info = NoCpuInfo
    /\ vcache = <<>>
    /\ cpc = "boot"
    /\ cop = CpuOp("none", <<>>, NoCpuInfo)
    /\ overflow_checks \in BOOLEAN
    /\ target_os = "linux"
    /\ ParseIdle
    /\ SchedIdle
    /\ ProcIdle
    /\ SizeIdle
    /\ FacadeIdle
    /\ UtilIdle

TopoInit ==
    /\ sysfs \in [0..(NumCores - 1) -> TopoIndex3Dirs]
    /\ host \in TopoHosts
    /\ cpu_info = NoCpuInfo
    /\ vcache = <<>>
    /\ cpc = "boot"
    /\ cop = CpuOp("none", <<>>, NoCpuInfo)
    /\ BuildIdle
    /\ ParseIdle
    /\ SchedIdle
    /\ ProcIdle
    /\ SizeIdle
    /\ FacadeIdle
    /\ UtilIdle

\* HexinApp::new: CpuInfo::detect(); a panic ends the program
Detect ==
    /\ cpc = "boot"
    /\ \E hash_order \in HashOrders :
           LET d == detect(sysfs, host, hash_order, overflow_checks)
           IN  IF d = Panicked
               THEN /\ cpc' = "aborted"
                    /\ UNCHANGED cpu_info
               ELSE /\ cpc' = "detected"
                    /\ cpu_info' = d
    /\ cop' = CpuOp("detect", <<>>, cpu_info)
    /\ UNCHANGED <<sysfs, host, vcache>>
    /\ UNCHANGED <<parseVars, schedVars, procVars, buildVars, sizeVars, facadeVars, utilVars>>

\* HexinApp::new: cpu_info.vcache_cores()
VcacheCores ==
    /\ cpc = "detected"
    /\ vcache' = vcache_cores(cpu_info)
    /\ cpc' = "queried"
    /\ cop' = CpuOp("vcache_cores", <<>>, cpu_info)
    /\ UNCHANGED <<sysfs, host, cpu_info>>
    /\ UNCHANGED <<parseVars, schedVars, procVars, buildVars, sizeVars, facadeVars, utilVars>>

\* HexinApp::update_data: refresh_cpu_all, then cpu_info.update(&system)
UpdateCpu ==
    /\ cpc = "queried"
    /\ \E cpus \in LiveSamples :
           /\ cpu_info' = cpu_info_update(cpu_info, cpus)
           /\ cop' = CpuOp("update", cpus, cpu_info)
    /\ UNCHANGED <<sysfs, host, vcache, cpc>>
    /\ UNCHANGED <<parseVars, schedVars, procVars, buildVars, sizeVars, facadeVars, utilVars>>

CpuNext ==
    \/ Detect
    \/ VcacheCores

SpecCpu ==
    CpuInit /\ [][CpuNext]_vars

TopoNext ==
    \/ Detect
    \/ VcacheCores
    \/ UpdateCpu

SpecTopo ==
    TopoInit /\ [][TopoNext]_vars

(***************************************************************************)
(* Specification of parse_cache_size: the input is a sign, a number, a     *)
(* unit and white space around them                                        *)
(***************************************************************************)
\* numbers up to and past 2^54 and 2^64
SizeNumbers ==
    {<<>>, <<"0">>, <<"7">>, <<"3", "2", "7", "6", "8">>, <<"6", "5", "5", "3", "6">>,
     <<"1", "8", "0", "1", "4", "3", "9", "8", "5", "0", "9", "4", "8", "1", "9", "8", "3">>,
     <<"1", "8", "0", "1", "4", "3", "9", "8", "5", "0", "9", "4", "8", "1", "9", "8", "4">>,
     <<"1", "8", "4", "4", "6", "7", "4", "4", "0", "7", "3", "7", "0", "9", "5", "5", "1", "6", "1", "5">>,
     <<"1", "8", "4", "4", "6", "7", "4", "4", "0", "7", "3", "7", "0", "9", "5", "5", "1", "6", "1", "6">>,
     <<"3", "x">>}

SizeUnits ==
    {<<>>, <<"K">>, <<"k">>, <<"M">>, <<"m">>, <<"G">>}

SizeTexts ==
    {lead \o sign \o number \o unit \o trail :
        lead \in {<<>>, <<" ">>}, sign \in {<<>>, <<"+">>, <<"-">>},
        number \in SizeNumbers, unit \in SizeUnits, trail \in {<<>>, <<"\n">>}}

SizeInit ==
    /\ size_text \in SizeTexts
    /\ size_ret = Returned(U64(0))
    /\ spc = "ready"
    /\ overflow_checks \in BOOLEAN
    /\ target_os = "linux"
    /\ ParseIdle
    /\ SchedIdle
    /\ ProcIdle
    /\ CpuIdle
    /\ FacadeIdle
    /\ UtilIdle

\* one call of parse_cache_size
ParseCacheSize ==
    /\ spc = "ready"
    /\ size_ret' = IF parse_cache_size_panics(size_text, overflow_checks)
                   THEN [panic |-> TRUE, val |-> U64(0)]
                   ELSE Returned(parse_cache_size(size_text))
    /\ spc' = "done"
    /\ UNCHANGED size_text
    /\ UNCHANGED <<parseVars, schedVars, procVars, cpuVars, buildVars, facadeVars, utilVars>>

SpecSize ==
    SizeInit /\ [][ParseCacheSize]_vars

(***************************************************************************)
(* Specification of the facade called directly, on Linux and on another OS *)
(***************************************************************************)
\* the policies a caller may pass, two of them unknown to the kernel
FacadePolicies ==
    {all[i] : i \in 1..Len(all)} \cup {Unknown(7), Unknown(-1)}

FacadePriorities ==
    {-10, 0, 50, 100}

FacadeNices ==
    {-25, -10, 0, 19}

\* core lists handed to set_process_affinity; NumCores is not an online cpu
FacadeCoreLists ==
    {<<>>, <<0>>, AllCoresSeq, <<NumCores>>}

\* vcache_cores handed to builtin_presets
PresetCoreLists ==
    {<<>>, <<0>>, <<NumCores - 1>>, AllCoresSeq, <<0, 0>>, <<NumCores>>}

FacadeInit ==
    /\ kernel \in [policy : {SCHED_OTHER, SCHED_DEADLINE}, rtprio : {0}, nice : {0},
                   affinity : {Online, {0}}]
    /\ selected_pid = NoneNum
    /\ editing_policy = Policy("Other")
    /\ editing_priority = 0
    /\ presets = <<>>
    /\ error_message = NoMsg
    /\ success_message = NoMsg
    /\ op = Op("init", 0)
    /\ calls = <<>>
    /\ before = kernel
    /\ overflow_checks = FALSE
    /\ target_os \in {"linux", "other"}
    /\ FacadeIdle
    /\ UtilIdle
    /\ ParseIdle
    /\ ProcIdle
    /\ CpuIdle
    /\ SizeIdle

\* the call `call` returned `ret`, left the process as k and issued sc
FacadeRan(call, ret, k, sc) ==
    /\ fcall' = call
    /\ fret' = ret
    /\ kernel' = k
    /\ syscalls' = sc
    /\ before' = kernel
    /\ UNCHANGED <<selected_pid, editing_policy, editing_priority, presets,
                   error_message, success_message, op, calls>>
    /\ UNCHANGED <<parseVars, procVars, cpuVars, buildVars, sizeVars, utilVars>>

\* Result<(), String> as ok/val
Result(ok) ==
    [ok |-> ok, val |-> <<>>]

Value(v) ==
    [ok |-> TRUE, val |-> v]

SetScheduler ==
    \E policy \in FacadePolicies, priority \in FacadePriorities, permitted \in BOOLEAN :
        LET call == FacadeCall("set_scheduler", <<TargetPid, policy, priority>>)
            r    == IF target_os = "linux"
                    THEN set_scheduler(kernel, policy, priority, permitted)
                    ELSE set_scheduler_other_os(kernel, policy, priority)
        IN  FacadeRan(call, Result(r.ok), r.k,
                      IF target_os = "linux" THEN <<r.sys>> ELSE <<>>)

SetProcessNice ==
    \E nice \in FacadeNices, permitted \in BOOLEAN :
        LET call == FacadeCall("set_process_nice", <<TargetPid, nice>>)
            r    == IF target_os = "linux"
                    THEN set_process_nice(kernel, nice, permitted)
                    ELSE set_process_nice_other_os(kernel, nice)
        IN  FacadeRan(call, Result(r.ok), r.k,
                      IF target_os = "linux" THEN <<r.sys>> ELSE <<>>)

SetProcessAffinity ==
    \E cores \in FacadeCoreLists, permitted \in BOOLEAN :
        LET call == FacadeCall("set_process_affinity", <<TargetPid, cores>>)
            r    == IF target_os = "linux"
                    THEN set_process_affinity(kernel, cores, Online, permitted)
                    ELSE set_process_affinity_other_os(kernel, cores)
        IN  FacadeRan(call, Result(r.ok), r.k,
                      IF target_os = "linux" THEN <<r.sys>> ELSE <<>>)

GetSchedulerInfo ==
    \E readable \in BOOLEAN :
        LET call == FacadeCall("get_scheduler_info", <<TargetPid>>)
            r    == IF target_os = "linux"
                    THEN get_scheduler_info(kernel, readable)
                    ELSE get_scheduler_info_other_os(kernel)
        IN  FacadeRan(call, Value(r), kernel, <<>>)

GetProcessAffinity ==
    \E logical_cores \in 0..(NumCores + 1), readable \in BOOLEAN :
        LET call == FacadeCall("get_process_affinity", <<TargetPid, logical_cores>>)
            r    == IF target_os = "linux"
                    THEN get_process_affinity(kernel, logical_cores, readable)
                    ELSE get_process_affinity_other_os(kernel, logical_cores)
        IN  FacadeRan(call, Value(r), kernel, <<>>)

GetRtPriorityRange ==
    \E policy \in FacadePolicies :
        LET call == FacadeCall("get_rt_priority_range", <<policy>>)
            r    == IF target_os = "linux"
                    THEN get_rt_priority_range(policy)
                    ELSE get_rt_priority_range_other_os(policy)
        IN  FacadeRan(call, Value(r), kernel, <<>>)

BuiltinPresets ==
    \E vc_cores \in PresetCoreLists, all_cores \in 0..NumCores :
        FacadeRan(FacadeCall("builtin_presets", <<vc_cores, all_cores>>),
                  Value(builtin_presets(vc_cores, all_cores)), kernel, <<>>)

FacadeNext ==
    \/ SetScheduler
    \/ SetProcessNice
    \/ SetProcessAffinity
    \/ GetSchedulerInfo
    \/ GetProcessAffinity
    \/ GetRtPriorityRange
    \/ BuiltinPresets

SpecFacade ==
    FacadeInit /\ [][FacadeNext]_vars

(***************************************************************************)
(* Specification of the parser: the input is any string over Alphabet      *)
(***************************************************************************)
ParseInit ==
    /\ input \in Strings(MaxLen)
    /\ parsed = NoneList
    /\ ppc = "ready"
    /\ SchedIdle
    /\ ProcIdle
    /\ CpuIdle
    /\ BuildIdle
    /\ SizeIdle
    /\ FacadeIdle
    /\ UtilIdle

ParseCpuList ==
    /\ ppc = "ready"
    /\ parsed' = parse_cpu_list(input)
    /\ ppc' = "done"
    /\ UNCHANGED input
    /\ UNCHANGED <<schedVars, procVars, cpuVars, buildVars, sizeVars, facadeVars, utilVars>>

SpecParse ==
    ParseInit /\ [][ParseCpuList]_vars

(***************************************************************************)
(* Specification of a RingBuffer of any capacity that values are pushed    *)
(* into                                                                    *)
(***************************************************************************)
MaxCap == 3

MaxPushes == 4

RingValues ==
    {1, 2}

\* RingBuffer::new(capacity)
RingInit ==
    /\ ring \in {ring_new(c) : c \in 0..MaxCap}
    /\ pushed = <<>>
    /\ ParseIdle
    /\ SchedIdle
    /\ ProcIdle
    /\ CpuIdle
    /\ BuildIdle
    /\ SizeIdle
    /\ FacadeIdle
    /\ HistIdle
    /\ AppIdle
    /\ CmpIdle
    /\ EditIdle

\* RingBuffer::push
RingPush ==
    /\ Len(pushed) < MaxPushes
    /\ \E value \in RingValues :
           /\ ring' = ring_push(ring, value)
           /\ pushed' = Append(pushed, value)
    /\ UNCHANGED <<parseVars, schedVars, procVars, cpuVars, buildVars, sizeVars, facadeVars>>
    /\ UNCHANGED <<histVars, appVars, cmpVars, editVars>>

SpecRing ==
    RingInit /\ [][RingPush]_vars

(***************************************************************************)
(* Specification of a CpuHistory that samples of any width are pushed into *)
(***************************************************************************)
MaxSamples == 3

\* the per-core usages of one sample: none, too few, as many as two cores,
\* one more
CoreUsages ==
    {<<>>, <<10>>, <<10, 20>>, <<30, 40, 50>>}

TotalUsages ==
    {15, 35}

\* the arguments of one CpuHistory::push
Sample(core_usages, total_usage, timestamp) ==
    [core_usages |-> core_usages, total_usage |-> total_usage,
     timestamp |-> timestamp]

\* CpuHistory::new(core_count, history_size)
HistInit ==
    /\ cpu_history \in {history_new(n, h) : n \in 0..NumCores, h \in 0..MaxCap}
    /\ hpushes = <<>>
    /\ ParseIdle
    /\ SchedIdle
    /\ ProcIdle
    /\ CpuIdle
    /\ BuildIdle
    /\ SizeIdle
    /\ FacadeIdle
    /\ RingIdle
    /\ AppIdle
    /\ CmpIdle
    /\ EditIdle

\* CpuHistory::push; the timestamp is the number of the sample
HistoryPush ==
    /\ Len(hpushes) < MaxSamples
    /\ \E core_usages \in CoreUsages, total_usage \in TotalUsages :
           LET timestamp == Len(hpushes) + 1
           IN  /\ cpu_history' = history_push(cpu_history, core_usages,
                                              total_usage, timestamp)
               /\ hpushes' = Append(hpushes, Sample(core_usages, total_usage, timestamp))
    /\ UNCHANGED <<parseVars, schedVars, procVars, cpuVars, buildVars, sizeVars, facadeVars>>
    /\ UNCHANGED <<ringVars, appVars, cmpVars, editVars>>

SpecHistory ==
    HistInit /\ [][HistoryPush]_vars

(***************************************************************************)
(* Specification of the application's refresh loop: update_data is called  *)
(* at non-decreasing instants                                              *)
(***************************************************************************)
MaxUpdates == 3

\* the time between two frames, in milliseconds
FrameGaps ==
    {0, 250, 500, 1000}

\* config.refresh_interval_ms, the default being 500
RefreshIntervals ==
    {0, 250, 500, 1500}

\* config.history_length
HistoryLengths ==
    {1, 2}

\* what refresh_cpu_all reports for the cpus of the machine
AppSamples ==
    {[i \in 1..NumCores |-> Cpu(60, 3000)], [i \in 1..NumCores |-> Cpu(30 * i, 1000 + i)]}

\* what refresh_processes finds, in the order the table yields it
AppEnumerations ==
    {<<>>,
     <<LiveProcess(2, <<"B">>, << <<"b", "1">> >>, 5, 2, SCHED_OTHER, -10),
       LiveProcess(1, <<"a">>, <<>>, 0, 2, SCHED_OTHER, 0)>>}

\* the fields of HexinApp that update_data reads and writes
App ==
    [refresh_interval_ms |-> refresh_interval_ms,
     cpu_info            |-> cpu_info,
     cpu_history         |-> cpu_history,
     process_manager     |-> Self,
     last_cpu_update     |-> last_cpu_update,
     last_process_update |-> last_process_update,
     start_time          |-> start_time,
     log                 |-> aop]

\* HexinApp::new on a machine of NumCores cpus, at instant 0
AppInit ==
    /\ refresh_interval_ms \in RefreshIntervals
    /\ sysfs = [c \in 0..(NumCores - 1) |-> NoIndex3]
    /\ host = BareHost
    /\ cpu_info = detect(sysfs, host, <<0, 1>>, FALSE)
    /\ vcache = vcache_cores(cpu_info)
    /\ cpc = "queried"
    /\ cop = CpuOp("vcache_cores", <<>>, cpu_info)
    /\ cpu_history \in {history_new(cpu_info.logical_cores, h) : h \in HistoryLengths}
    /\ hpushes = <<>>
    /\ sys = {}
    /\ processes = update(new, <<>>).processes
    /\ filter = new.filter
    /\ sort_by = new.sort_by
    /\ sort_desc = new.sort_desc
    /\ view = <<>>
    /\ pop = PmOp("update", <<>>, <<>>)
    /\ now = 0
    /\ start_time = 0
    /\ last_cpu_update = 0
    /\ last_process_update = 0
    /\ aop = AppOp(0, 0, 0, 0)
    /\ ParseIdle
    /\ SchedIdle
    /\ BuildIdle
    /\ SizeIdle
    /\ FacadeIdle
    /\ RingIdle
    /\ CmpIdle
    /\ EditIdle

\* eframe::App::update: one frame calls update_data once
UpdateData ==
    /\ aop.updates < MaxUpdates
    /\ \E gap \in FrameGaps, cpus \in AppSamples, enumeration \in AppEnumerations :
           LET after == update_data(App, now + gap, cpus, enumeration)
           IN  /\ now' = now + gap
               /\ cpu_info' = after.cpu_info
               /\ cpu_history' = after.cpu_history
               /\ hpushes' = IF after.log.samples > aop.samples
                             THEN Append(hpushes, cpus) ELSE hpushes
               /\ cop' = IF after.log.refreshes > aop.refreshes
                         THEN CpuOp("update", cpus, cpu_info) ELSE cop
               /\ Becomes(after.process_manager)
               /\ sys' = IF after.log.rebuilds > aop.rebuilds
                         THEN {enumeration[i] : i \in 1..Len(enumeration)} ELSE sys
               /\ pop' = IF after.log.rebuilds > aop.rebuilds
                         THEN PmOp("update", <<>>, processes) ELSE pop
               /\ last_cpu_update' = after.last_cpu_update
               /\ last_process_update' = after.last_process_update
               /\ aop' = after.log
    /\ UNCHANGED <<refresh_interval_ms, start_time, view, sysfs, host, vcache, cpc>>
    /\ UNCHANGED <<parseVars, schedVars, buildVars, sizeVars, facadeVars>>
    /\ UNCHANGED <<ringVars, cmpVars, editVars>>

SpecApp ==
    AppInit /\ [][UpdateData]_vars

(***************************************************************************)
(* Specification of the sort by CpuUsage on usages that may be NaN         *)
(***************************************************************************)
F32Values ==
    {NaN, F32(0), F32(1), F32(2)}

\* the processes of the list, reduced to their cpu_usage
UsageLists ==
    UNION {[1..n -> {[cpu_usage |-> u] : u \in F32Values}] : n \in 0..MaxProcs}

CmpInit ==
    /\ usages \in UsageLists
    /\ ordered = {}
    /\ qpc = "ready"
    /\ sys = {}
    /\ processes = <<>>
    /\ filter = <<>>
    /\ sort_by = "CpuUsage"
    /\ sort_desc \in BOOLEAN
    /\ view = <<>>
    /\ pop = PmOp("new", <<>>, <<>>)
    /\ ParseIdle
    /\ SchedIdle
    /\ CpuIdle
    /\ BuildIdle
    /\ SizeIdle
    /\ FacadeIdle
    /\ RingIdle
    /\ HistIdle
    /\ AppIdle
    /\ EditIdle

\* ProcessManager::sort
SortByCpuUsage ==
    /\ qpc = "ready"
    /\ ordered' = sort_by_cpu_usage(usages, sort_desc)
    /\ qpc' = "done"
    /\ UNCHANGED <<usages, procVars>>
    /\ UNCHANGED <<parseVars, schedVars, cpuVars, buildVars, sizeVars, facadeVars>>
    /\ UNCHANGED <<ringVars, histVars, appVars, editVars>>

SpecCmp ==
    CmpInit /\ [][SortByCpuUsage]_vars

(***************************************************************************)
(* Specification of the affinity editor of the process list, next to a     *)
(* scheduler panel holding the built-in presets of some machine            *)
(***************************************************************************)
\* ProcessInfo.affinity of the row, as get_process_affinity reported it
RowAffinities ==
    {<<>>, <<0>>, AllCoresSeq}

\* the fields of ProcessListPanel the editor uses
Panel ==
    [editing_affinity |-> editing_affinity,
     affinity_selection |-> affinity_selection,
     error_message |-> list_error]

PanelBecomes(self) ==
    /\ editing_affinity' = self.editing_affinity
    /\ affinity_selection' = self.affinity_selection
    /\ list_error' = self.error_message

\* ProcessListPanel::new and SchedulerPanel::new, the process selected
EditInit ==
    /\ kernel = [policy |-> SCHED_OTHER, rtprio |-> 0, nice |-> 0, affinity |-> Online]
    /\ selected_pid = Some(TargetPid)
    /\ editing_policy = Policy("Other")
    /\ editing_priority = 0
    /\ \E vc \in PresetCoreLists, all_cores \in 0..NumCores :
           presets = builtin_presets(vc, all_cores)
    /\ error_message = NoMsg
    /\ success_message = NoMsg
    /\ op = Op("init", 0)
    /\ calls = <<>>
    /\ before = kernel
    /\ EditIdle
    /\ ParseIdle
    /\ ProcIdle
    /\ CpuIdle
    /\ BuildIdle
    /\ SizeIdle
    /\ FacadeIdle
    /\ RingIdle
    /\ HistIdle
    /\ AppIdle
    /\ CmpIdle

\* an event of the process list leaves the scheduler panel alone
EditorOnly ==
    /\ UNCHANGED <<selected_pid, editing_policy, editing_priority, presets,
                   error_message, success_message, op, calls, before>>
    /\ UNCHANGED <<parseVars, procVars, cpuVars, buildVars, sizeVars, facadeVars>>
    /\ UNCHANGED <<ringVars, histVars, appVars, cmpVars>>

\* draw_process_row: the affinity button of the row
OpenEditor ==
    /\ editing_affinity # Some(TargetPid)
    /\ \E affinity \in RowAffinities :
           /\ PanelBecomes(draw_process_row_clicked(Panel, TargetPid, affinity, NumCores))
           /\ eop' = EditOp("open", affinity, <<>>)
    /\ UNCHANGED kernel
    /\ EditorOnly

\* draw_affinity_editor: a checkbox
ToggleCore ==
    /\ editing_affinity = Some(TargetPid)
    /\ \E i \in 1..Len(affinity_selection) :
           /\ i <= MAX_SHOWN_CORES
           /\ affinity_selection' = [affinity_selection EXCEPT ![i] = ~@]
           /\ eop' = EditOp("toggle", i - 1, <<>>)
    /\ UNCHANGED <<editing_affinity, list_error, kernel>>
    /\ EditorOnly

\* draw_affinity_editor: the confirm button
ConfirmAffinity ==
    /\ editing_affinity = Some(TargetPid)
    /\ \E permitted \in BOOLEAN :
           LET out == draw_affinity_editor_confirm(Panel, kernel, TargetPid, Online, permitted)
           IN  /\ PanelBecomes(out.self)
               /\ kernel' = out.kernel
               /\ eop' = EditOp("confirm", affinity_selection, out.made)
    /\ EditorOnly

\* draw_affinity_editor: the cancel button
CancelAffinity ==
    /\ editing_affinity = Some(TargetPid)
    /\ PanelBecomes(draw_affinity_editor_cancel(Panel))
    /\ eop' = EditOp("cancel", <<>>, <<>>)
    /\ UNCHANGED kernel
    /\ EditorOnly

\* ProcessListPanel::ui: the close button of the error banner
DismissListError ==
    /\ list_error.some
    /\ list_error' = NoMsg
    /\ eop' = EditOp("dismiss", <<>>, <<>>)
    /\ UNCHANGED <<editing_affinity, affinity_selection, kernel>>
    /\ EditorOnly

EditNext ==
    \/ OpenEditor
    \/ ToggleCore
    \/ ConfirmAffinity
    \/ CancelAffinity
    \/ DismissListError

SpecEdit ==
    EditInit /\ [][EditNext]_vars

(***************************************************************************)
(* What a CPU list is, stated on the text (independent of the parser)      *)
(***************************************************************************)
\* positions of the commas of s, with 0 and Len(s)+1 as sentinels
Cuts(s) ==
    {0, Len(s) + 1} \cup {i \in 1..Len(s) : s[i] = ","}

\* the text strictly between two neighbouring cuts
TokenSpans(s) ==
    {<<a, b>> \in Cuts(s) \X Cuts(s) : a < b /\ \A c \in Cuts(s) : ~(a < c /\ c < b)}

TokenAt(s, span) ==
    SubSeq(s, span[1] + 1, span[2] - 1)

IsNumber(t) ==
    t # <<>> /\ \A i \in 1..Len(t) : t[i] \in DigitSet

DashesOf(t) ==
    {i \in 1..Len(t) : t[i] = "-"}

IsSingle(t) ==
    IsNumber(t)

IsRange(t) ==
    /\ Cardinality(DashesOf(t)) = 1
    /\ LET d == CHOOSE i \in DashesOf(t) : TRUE
       IN  /\ IsNumber(SubSeq(t, 1, d - 1))
           /\ IsNumber(SubSeq(t, d + 1, Len(t)))
           /\ DecValue(SubSeq(t, 1, d - 1)) <= DecValue(SubSeq(t, d + 1, Len(t)))

WellFormedToken(t) ==
    IsSingle(t) \/ IsRange(t)

WellFormedList(s) ==
    \A span \in TokenSpans(s) : WellFormedToken(TokenAt(s, span))

Expansion(t) ==
    IF IsSingle(t) THEN <<DecValue(t)>>
    ELSE LET d == CHOOSE i \in DashesOf(t) : TRUE
             a == DecValue(SubSeq(t, 1, d - 1))
             b == DecValue(SubSeq(t, d + 1, Len(t)))
         IN  [i \in 1..(b - a + 1) |-> a + i - 1]

\* the concatenation of the expansions of the tokens that start after `from`
RECURSIVE ExpectedFrom(_, _)
ExpectedFrom(s, from) ==
    IF from > Len(s) THEN <<>>
    ELSE LET span == CHOOSE sp \in TokenSpans(s) : sp[1] = from
         IN  Expansion(TokenAt(s, span)) \o ExpectedFrom(s, span[2])

\* C1: for every well-formed CPU list (comma-separated singles and ranges
\* a-b with a <= b) parse_cpu_list returns Some of the concatenation, in
\* token order, of the tokens' expansions ([n] for n, [a..b] for a-b).
C1_ParseWellFormed ==
    (ppc = "done" /\ WellFormedList(input))
        => parsed = Some(ExpectedFrom(input, 0))

C1_Witness ==
    /\ ppc = "done"
    /\ input = <<"0", "-", "2", ",", "1">>
    /\ WellFormedList(input)
    /\ parsed = Some(<<0, 1, 2, 1>>)

\* C2: parse_cpu_list is all-or-nothing: when any comma-separated token is
\* malformed (neither a single integer nor a range a-b with a <= b) the
\* parse returns None.
C2_MalformedIsNone ==
    (ppc = "done" /\ ~WellFormedList(input))
        => ~parsed.some

(***************************************************************************)
(* Claims about the scheduler facade and the scheduler panel               *)
(***************************************************************************)
RawSpan == 8


ModelledRaw ==
    {SCHED_OTHER, SCHED_FIFO, SCHED_RR, SCHED_BATCH, SCHED_IDLE}

InAll(p) ==
    \E i \in 1..Len(all) : all[i] = p

\* C3: raw-constant round trip: from_raw(to_raw(p)) = p for every variant p
\* of SchedulePolicy::all(), and every raw value outside {0,1,2,3,5} maps to
\* Unknown(raw), whose to_raw is raw again.
C3_RoundTrip ==
    /\ \A i \in 1..Len(all) : from_raw(to_raw(all[i])) = all[i]
    /\ InAll(editing_policy) => from_raw(to_raw(editing_policy)) = editing_policy
    /\ \A raw \in ((-RawSpan)..RawSpan) \cup {kernel.policy} :
           raw \notin ModelledRaw
               => /\ from_raw(raw) = Unknown(raw)
                  /\ to_raw(from_raw(raw)) = raw

C3_Witness ==
    /\ editing_policy = Policy("Batch")
    /\ from_raw(to_raw(editing_policy)) = Policy("Batch")
    /\ kernel.policy = SCHED_DEADLINE
    /\ to_raw(from_raw(kernel.policy)) = SCHED_DEADLINE

\* the steps apply_preset has to run for a preset when none of them fails
StepsOf(preset) ==
    <<"set_scheduler">>
    \o (IF ~is_realtime(preset.policy) /\ preset.priority # 0
        THEN <<"set_process_nice">> ELSE <<>>)
    \o (IF preset.affinity_cores.some THEN <<"set_process_affinity">> ELSE <<>>)

\* what a step that succeeded leaves in the kernel
StepInEffect(fn, preset) ==
    CASE fn = "set_scheduler" ->
             /\ kernel.policy = to_raw(preset.policy)
             /\ kernel.rtprio = IF is_realtime(preset.policy) THEN preset.priority ELSE 0
      [] fn = "set_process_nice" ->
             kernel.nice = preset.priority
      [] fn = "set_process_affinity" ->
             kernel.affinity = {preset.affinity_cores.val[i] :
                                   i \in 1..Len(preset.affinity_cores.val)} \cap Online

Failed ==
    calls # <<>> /\ ~calls[Len(calls)].ok

\* C4: apply_preset runs set_scheduler, then set_process_nice (only for a
\* non-real-time policy with non-zero priority), then set_process_affinity
\* (only with affinity_cores), stops at the first step that fails, keeps
\* what the earlier steps did, and reports the error of the failing step.
C4_PresetSequentialStoppable ==
    op.name = "apply_preset" =>
        LET preset == presets[op.arg]
            steps  == StepsOf(preset)
            n      == Len(calls)
        IN  /\ n \in 1..Len(steps)
            /\ \A i \in 1..n : calls[i].fn = steps[i]
            /\ \A i \in 1..(n - 1) : calls[i].ok
            /\ calls[n].ok => n = Len(steps)
            /\ ~calls[n].ok => error_message = Some(calls[n].fn)
            /\ \A i \in 1..n : calls[i].ok => StepInEffect(calls[i].fn, preset)

C4_Witness ==
    /\ op.name = "apply_preset"
    /\ Len(calls) = 3
    /\ ~calls[3].ok
    /\ error_message = Some("set_process_affinity")
    /\ kernel.nice = -5
    /\ before.nice # -5
    /\ kernel.affinity = before.affinity

\* C5 (as stated): whenever apply_preset or apply_scheduler ends by
\* reporting an error of a facade call, the policy, real-time priority,
\* niceness and affinity of the process are what they were before.
C5_FailureLeavesStateUntouched ==
    (op.name \in {"apply_preset", "apply_scheduler"} /\ Failed)
        => kernel = before

\* C5 (amended): an error of set_scheduler, the first step, leaves the
\* process as it was; an error of set_process_nice leaves niceness and
\* affinity as they were (the policy set before it stays); an error of
\* set_process_affinity leaves the affinity as it was, and the niceness too
\* unless the niceness step ran.
C5_FailureKeepsOnlyEarlierSteps ==
    (op.name \in {"apply_preset", "apply_scheduler"} /\ Failed) =>
        LET failing == calls[Len(calls)].fn
        IN  /\ failing = "set_scheduler" => kernel = before
            /\ failing = "set_process_nice"
                   => /\ kernel.nice = before.nice
                      /\ kernel.affinity = before.affinity
            /\ failing = "set_process_affinity"
                   => /\ kernel.affinity = before.affinity
                      /\ (\A i \in 1..Len(calls) : calls[i].fn # "set_process_nice")
                             => kernel.nice = before.nice

C5_Witness ==
    /\ op.name = "apply_preset"
    /\ Failed
    /\ calls[Len(calls)].fn = "set_scheduler"
    /\ presets[op.arg].priority = -10
    /\ kernel = before
    /\ kernel.policy = SCHED_FIFO

(***************************************************************************)
(* Claims about the process manager                                        *)
(***************************************************************************)
\* C6: set_sort(field) is a toggle: with the current field it keeps the
\* field and inverts the direction; with another field it takes that field
\* and the direction becomes descending.  A new manager starts with
\* (CpuUsage, descending).
C6_SetSortToggle ==
    /\ [](pop.name = "new" => (sort_by = "CpuUsage" /\ sort_desc = TRUE))
    /\ [][pop'.name = "set_sort" =>
             LET field == pop'.arg[1]
             IN  IF field = sort_by
                 THEN sort_by' = sort_by /\ sort_desc' = ~sort_desc
                 ELSE sort_by' = field /\ sort_desc' = TRUE]_vars

C6_Witness ==
    /\ pop.name = "set_sort"
    /\ pop.arg = <<"Name">>
    /\ sort_by = "Name"
    /\ sort_desc = FALSE
    /\ Len(processes) = 3

\* the sort key of a record, as a comparison: a's key <= b's key
KeyLeq(field, a, b) ==
    CASE field = "Pid" -> a.pid <= b.pid
      [] field = "Memory" -> a.memory <= b.memory
      [] field = "CpuUsage" -> a.cpu_usage <= b.cpu_usage
      [] field = "Name" -> a.name = b.name \/ StrLess(a.name, b.name)

InOrder(list) ==
    \A i \in 1..(Len(list) - 1) :
        IF sort_desc THEN KeyLeq(sort_by, list[i + 1], list[i])
        ELSE KeyLeq(sort_by, list[i], list[i + 1])

ContainsIgnoringCase(hay, needle) ==
    \E off \in 0..(Len(hay) - Len(needle)) :
        \A k \in 1..Len(needle) : LowerChar(hay[off + k]) = LowerChar(needle[k])

MatchesFilter(p) ==
    \/ ContainsIgnoringCase(p.name, filter)
    \/ ContainsIgnoringCase(p.cmd, filter)
    \/ ContainsIgnoringCase(to_string(p.pid), filter)

\* the positions of `processes` that match, in ascending order
RECURSIVE MatchingFrom(_)
MatchingFrom(i) ==
    IF i > Len(processes) THEN <<>>
    ELSE (IF MatchesFilter(processes[i]) THEN <<processes[i]>> ELSE <<>>)
         \o MatchingFrom(i + 1)

\* C8: filtered_processes returns exactly the tracked processes whose name,
\* command line or decimal pid contains the filter, ignoring case (all of
\* them for the empty filter); filtered_processes and set_filter leave the
\* tracked list, its order and the sort field and direction alone.
C8_FilterExactAndPure ==
    /\ [](pop.name = "filtered_processes" =>
             /\ view = MatchingFrom(1)
             /\ filter = <<>> => view = processes)
    /\ [][pop'.name \in {"filtered_processes", "set_filter"} =>
             UNCHANGED <<processes, sort_by, sort_desc>>]_vars

C8_Witness ==
    /\ pop.name = "filtered_processes"
    /\ filter = <<"B">>
    /\ Len(processes) = 3
    /\ Len(view) = 2
    /\ \E i \in 1..2 : view[i].name = <<"A", "b">>
    /\ \E i \in 1..3 : processes[i].name = <<"a">>

\* C9: update replaces the whole tracked set: afterwards the list holds
\* exactly one freshly built record per process of the live table and
\* nothing else, whatever it held before; filter and sort are unchanged.
C9_UpdateReplaces ==
    /\ [](pop.name = "update" =>
             /\ Len(processes) = Cardinality(sys)
             /\ {processes[i] : i \in 1..Len(processes)} = {from_process(p) : p \in sys}
             /\ \A p \in sys : \E i \in 1..Len(processes) :
                    /\ processes[i].pid = p.pid
                    /\ processes[i].name = p.name
                    /\ processes[i].cpu_usage = p.cpu_usage
                    /\ processes[i].memory = p.memory)
    /\ [][pop'.name = "update" => UNCHANGED <<filter, sort_by, sort_desc>>]_vars

C9_Witness ==
    /\ pop.name = "update"
    /\ \E i \in 1..Len(pop.prev) : pop.prev[i].pid = 12
    /\ \A i \in 1..Len(processes) : processes[i].pid # 12
    /\ \E i \in 1..Len(pop.prev) : pop.prev[i].pid = 1 /\ pop.prev[i].name = <<"a">>
    /\ \E i \in 1..Len(processes) : processes[i].pid = 1 /\ processes[i].name = <<"b">>

(***************************************************************************)
(* Claims about the topology detector                                      *)
(***************************************************************************)
ElemsOf(seq) ==
    {seq[i] : i \in 1..Len(seq)}

NoDuplicates(seq) ==
    \A i, j \in 1..Len(seq) : seq[i] = seq[j] => i = j

\* the cpus listed by the L3 caches flagged as V-Cache
VcacheUnion ==
    UNION {ElemsOf(cpu_info.l3_caches[i].shared_cpus) :
              i \in {j \in 1..Len(cpu_info.l3_caches) : cpu_info.l3_caches[j].is_vcache}}

\* the detected cpus whose lowest-numbered containing L3 cache is a V-Cache
VcacheAssigned ==
    {c \in 0..(cpu_info.logical_cores - 1) :
        \E i \in 1..Len(cpu_info.l3_caches) :
            /\ cpu_info.l3_caches[i].is_vcache
            /\ c \in ElemsOf(cpu_info.l3_caches[i].shared_cpus)
            /\ \A j \in 1..(i - 1) : c \notin ElemsOf(cpu_info.l3_caches[j].shared_cpus)}

\* no cpu is listed by two caches, and none lies outside the detected cores
DomainsPartitionCores ==
    /\ \A i, j \in 1..Len(cpu_info.l3_caches) :
           i # j => ElemsOf(cpu_info.l3_caches[i].shared_cpus)
                        \cap ElemsOf(cpu_info.l3_caches[j].shared_cpus) = {}
    /\ \A i \in 1..Len(cpu_info.l3_caches) :
           ElemsOf(cpu_info.l3_caches[i].shared_cpus) \subseteq 0..(cpu_info.logical_cores - 1)

\* C10 (as stated): vcache_cores() is exactly the union of shared_cpus over
\* the L3 caches with is_vcache, without duplicates, also when cache domains
\* overlap or name cpus outside the detected cores.
C10_VcacheIsUnion ==
    cpc = "queried" =>
        /\ ElemsOf(vcache) = VcacheUnion
        /\ NoDuplicates(vcache)

\* C10 (amended): vcache_cores() is, without duplicates and whatever the
\* enumeration order, exactly the detected cpus whose lowest-id containing
\* L3 cache is a V-Cache; it is the union of shared_cpus over the V-Cache
\* caches when the domains are disjoint and name detected cpus only.
C10_VcacheIsAssignedCores ==
    cpc = "queried" =>
        /\ ElemsOf(vcache) = VcacheAssigned
        /\ NoDuplicates(vcache)
        /\ DomainsPartitionCores => ElemsOf(vcache) = VcacheUnion

C10_Witness ==
    /\ cpc = "queried"
    /\ vcache = <<1>>
    /\ Len(cpu_info.l3_caches) = 2
    /\ cpu_info.l3_caches[1].is_vcache
    /\ ~cpu_info.l3_caches[2].is_vcache
    /\ 1 \in ElemsOf(cpu_info.l3_caches[2].shared_cpus)

\* C11: every L3CacheInfo produced by detection has is_vcache true exactly
\* when its size_kb is above 65536; a cache of exactly 65536 KB is not a
\* V-Cache.
C11_VcacheIffAbove64MB ==
    cpc \in {"detected", "queried"} =>
        \A i \in 1..Len(cpu_info.l3_caches) :
            LET c == cpu_info.l3_caches[i]
            IN  /\ c.is_vcache <=> (c.size_kb # U64(65536) /\ ~Less(c.size_kb, U64(65536)))
                /\ c.size_kb = U64(65536) => ~c.is_vcache

C11_Witness ==
    /\ cpc = "detected"
    /\ Len(cpu_info.l3_caches) = 2
    /\ cpu_info.l3_caches[1].size_kb = U64(65536)
    /\ ~cpu_info.l3_caches[1].is_vcache
    /\ cpu_info.l3_caches[2].size_kb = U64(98304)
    /\ cpu_info.l3_caches[2].is_vcache

(***************************************************************************)
(* Claims about parse_cache_size                                           *)
(***************************************************************************)
\* the size in KB a text stands for, computed without a limit on its
\* magnitude (five limbs): the number before a K or k, 1024 times the number
\* before an M or m, the number itself without a unit, 0 when there is no
\* number that fits a u64
ExactKB(text) ==
    LET body   == Trim(text)
        last   == IF body = <<>> THEN "" ELSE body[Len(body)]
        unit   == IF last \in {"K", "k"} THEN "K"
                  ELSE IF last \in {"M", "m"} THEN "M" ELSE ""
        number == IF unit = "" THEN body ELSE SubSeq(body, 1, Len(body) - 1)
        prefix == parse_u64(number)
    IN  IF ~prefix.some THEN <<0, 0, 0, 0, 0>>
        ELSE IF unit = "M" THEN MulAddLimbs(prefix.val, 1024, 0, 1)
        ELSE prefix.val \o <<0>>

\* C12: parse_cache_size returns for every input the exact size in KB (as
\* is for K, k and no unit, times 1024 for M and m, 0 for an unparsable
\* text), without wrap-around and without aborting, whenever the numeric
\* prefix fits the integer type.
C12_CacheSizeExact ==
    spc = "done" =>
        /\ ~size_ret.panic
        /\ size_ret.val \o <<0>> = ExactKB(size_text)

(***************************************************************************)
(* Claims about CpuInfo                                                    *)
(***************************************************************************)
\* C13: after detect() and after every update(), cores.len() equals
\* logical_cores, the core at index i has cpu_id i, and every l3_cache_id
\* that is present is the id of an entry of l3_caches.
C13_CpuInfoStructure ==
    cpc \in {"detected", "queried"} =>
        /\ Len(cpu_info.cores) = cpu_info.logical_cores
        /\ \A i \in 1..Len(cpu_info.cores) :
               /\ cpu_info.cores[i].cpu_id = i - 1
               /\ cpu_info.cores[i].l3_cache_id.some =>
                      \E j \in 1..Len(cpu_info.l3_caches) :
                          cpu_info.l3_caches[j].id = cpu_info.cores[i].l3_cache_id.val

C13_Witness ==
    /\ cop.name = "update"
    /\ Len(cop.arg) = 1
    /\ cpu_info.logical_cores = 2
    /\ Len(cpu_info.l3_caches) = 1
    /\ cpu_info.l3_caches[1].id = 1
    /\ ~cpu_info.cores[1].l3_cache_id.some
    /\ cpu_info.cores[2].l3_cache_id = Some(1)

\* the arithmetic mean of usage_percent over the cores of a CpuInfo
RECURSIVE UsageSum(_, _)
UsageSum(cores, i) ==
    IF i > Len(cores) THEN 0 ELSE cores[i].usage_percent + UsageSum(cores, i + 1)

MeanUsage(info) ==
    IF info.cores = <<>> THEN Frac(0, 1)
    ELSE Frac(UsageSum(info.cores, 1), Len(info.cores))

\* a core without the two fields update() refreshes
Topology(core) ==
    [core EXCEPT !.usage_percent = 0, !.frequency_mhz = 0]

\* C14: update(live) gives core i the usage and frequency of the i-th live
\* sample, makes total_usage_percent the mean of usage over all logical
\* cores of the CpuInfo (0 if there are none) and changes nothing else,
\* also when the live sample count differs from cores.len().
C14_UpdateFrameAndMean ==
    cop.name = "update" =>
        LET old  == cop.prev
            live == cop.arg
        IN  /\ \A f \in {"model_name", "vendor", "physical_cores", "logical_cores",
                         "smt_enabled", "l3_caches", "base_frequency_mhz",
                         "max_frequency_mhz"} : cpu_info[f] = old[f]
            /\ Len(cpu_info.cores) = Len(old.cores)
            /\ \A i \in 1..Len(old.cores) :
                   /\ Topology(cpu_info.cores[i]) = Topology(old.cores[i])
                   /\ i <= Len(live) =>
                          /\ cpu_info.cores[i].usage_percent = live[i].cpu_usage
                          /\ cpu_info.cores[i].frequency_mhz = live[i].frequency
            /\ cpu_info.total_usage_percent = MeanUsage(cpu_info)

\* C15: detect() returns a CpuInfo whatever the /proc and sysfs files hold;
\* it never panics or aborts.
C15_DetectNeverAborts ==
    cop.name = "detect" => cpc = "detected"

\* C20: every L3CacheInfo of a detected CpuInfo has a non-empty shared_cpus,
\* also when the shared_cpu_list file is missing, empty or malformed.
C20_SharedCpusNonEmpty ==
    cpc \in {"detected", "queried"} =>
        \A i \in 1..Len(cpu_info.l3_caches) : cpu_info.l3_caches[i].shared_cpus # <<>>

(***************************************************************************)
(* Claims about the facade called directly                                 *)
(***************************************************************************)
\* policy, priority and affinity of a preset
Settings(preset) ==
    <<preset.policy, preset.priority, preset.affinity_cores>>

\* C16: builtin_presets(vcache_cores, all_cores) returns the four fixed
\* presets (Other 0, Other -10, Idle 0, Fifo 50, none with an affinity),
\* then, iff vcache_cores is non-empty, a preset bound to exactly
\* vcache_cores, then, iff moreover the complement of vcache_cores in
\* 0..all_cores-1 is non-empty, a preset bound to exactly that complement.
C16_BuiltinPresetsTable ==
    fcall.fn = "builtin_presets" =>
        LET vc         == fcall.args[1]
            all_cores  == fcall.args[2]
            ps         == fret.val
            complement == {c \in 0..(all_cores - 1) : c \notin ElemsOf(vc)}
        IN  /\ Len(ps) = 4 + (IF vc = <<>> THEN 0 ELSE IF complement = {} THEN 1 ELSE 2)
            /\ Settings(ps[1]) = <<Policy("Other"), 0, NoneList>>
            /\ Settings(ps[2]) = <<Policy("Other"), -10, NoneList>>
            /\ Settings(ps[3]) = <<Policy("Idle"), 0, NoneList>>
            /\ Settings(ps[4]) = <<Policy("Fifo"), 50, NoneList>>
            /\ vc # <<>> => ps[5].affinity_cores = Some(vc)
            /\ (vc # <<>> /\ complement # {}) =>
                   /\ ps[6].affinity_cores.some
                   /\ ElemsOf(ps[6].affinity_cores.val) = complement
                   /\ NoDuplicates(ps[6].affinity_cores.val)

C16_Witness ==
    /\ fcall = FacadeCall("builtin_presets", <<AllCoresSeq, NumCores>>)
    /\ Len(fret.val) = 5
    /\ fret.val[5].affinity_cores = Some(AllCoresSeq)

\* C17: set_scheduler hands the caller's priority to the kernel only for
\* Fifo and RoundRobin and 0 for every other policy; it makes one call, and
\* when the kernel refuses it returns Err and the process is as before.
C17_PriorityOnlyForRealtime ==
    (fcall.fn = "set_scheduler" /\ target_os = "linux") =>
        LET policy   == fcall.args[2]
            priority == fcall.args[3]
        IN  /\ Len(syscalls) = 1
            /\ syscalls[1].name = "sched_setscheduler"
            /\ syscalls[1].sched_priority =
                   (IF policy.tag \in {"Fifo", "RoundRobin"} THEN priority ELSE 0)
            /\ ~fret.ok => kernel = before

C17_Witness ==
    /\ target_os = "linux"
    /\ fcall = FacadeCall("set_scheduler", <<TargetPid, Policy("Batch"), 50>>)
    /\ syscalls[1].sched_priority = 0
    /\ fret.ok
    /\ kernel.policy = SCHED_BATCH

\* C18: get_rt_priority_range(policy) is (0, 0) for every policy that is not
\* Fifo or RoundRobin, on Linux and on every other OS alike; Fifo and
\* RoundRobin have the bounds of the OS.
C18_NonRealtimeRangeIsZero ==
    fcall.fn = "get_rt_priority_range" =>
        IF fcall.args[1].tag \in {"Fifo", "RoundRobin"}
        THEN fret.val = <<RT_PRIO_MIN, RT_PRIO_MAX>>
        ELSE fret.val = <<0, 0>>

\* C19: compiled for another OS than Linux, set_scheduler,
\* set_process_affinity and set_process_nice return an error for every
\* argument and change nothing, get_process_affinity returns the cores
\* 0..logical_cores-1 and get_scheduler_info returns (Other, 0).
C19_OtherOsBackend ==
    target_os = "other" =>
        /\ fcall.fn \in {"set_scheduler", "set_process_affinity", "set_process_nice"} =>
               /\ ~fret.ok
               /\ kernel = before
               /\ syscalls = <<>>
        /\ fcall.fn = "get_process_affinity" =>
               /\ fret.ok
               /\ fret.val = [i \in 1..fcall.args[2] |-> i - 1]
        /\ fcall.fn = "get_scheduler_info" =>
               /\ fret.ok
               /\ fret.val = [policy |-> Policy("Other"), priority |-> 0]

C19_Witness ==
    /\ target_os = "other"
    /\ fcall = FacadeCall("get_process_affinity", <<TargetPid, 2>>)
    /\ fret.val = <<0, 1>>
    /\ kernel.affinity = {0}

(***************************************************************************)
(* C21: a RingBuffer of capacity c that n values were pushed into holds    *)
(* exactly the last min(n, c) of them in push order: its length is at most *)
(* its capacity, oldest() is the first retained value, latest() the value  *)
(* pushed last.                                                            *)
(***************************************************************************)
C21_RingIsWindow ==
    LET n    == Len(pushed)
        keep == IF n < capacity(ring) THEN n ELSE capacity(ring)
    IN  /\ to_vec(ring) = SubSeq(pushed, n - keep + 1, n)
        /\ ring_len(ring) <= capacity(ring)
        /\ keep > 0 => oldest(ring) = Some(pushed[n - keep + 1])
        /\ n > 0 => latest(ring) = Some(pushed[n])

(***************************************************************************)
(* C29: after any pushes into a CpuHistory, with core_usages of any        *)
(* length, the timestamps, the totals and every core's series have the     *)
(* same length, at most history_size, and every point of plot_data and of  *)
(* core_plot_data pairs a usage with the timestamp of the push that        *)
(* recorded it.                                                            *)
(***************************************************************************)
C29_SeriesAligned ==
    LET len == ring_len(cpu_history.timestamps)
    IN  /\ ring_len(cpu_history.total_history) = len
        /\ \A i \in 1..Len(cpu_history.core_history) :
               ring_len(cpu_history.core_history[i]) = len
        /\ len <= capacity(cpu_history.timestamps)
        /\ \A j \in 1..Len(plot_data(cpu_history)) :
               \E k \in 1..Len(hpushes) :
                   /\ hpushes[k].timestamp = plot_data(cpu_history)[j][1]
                   /\ hpushes[k].total_usage = plot_data(cpu_history)[j][2]
        /\ \A core_id \in 0..(Len(cpu_history.core_history) - 1) :
               \A j \in 1..Len(core_plot_data(cpu_history, core_id)) :
                   \E k \in 1..Len(hpushes) :
                       /\ hpushes[k].timestamp = core_plot_data(cpu_history, core_id)[j][1]
                       /\ core_id < Len(hpushes[k].core_usages)
                       /\ hpushes[k].core_usages[core_id + 1]
                              = core_plot_data(cpu_history, core_id)[j][2]

(***************************************************************************)
(* C22: a call of update_data refreshes the CPU data, and records exactly  *)
(* one history sample, exactly when refresh_interval_ms or more have       *)
(* passed since the previous CPU refresh; it rebuilds the process list     *)
(* exactly when 1000 ms or more have passed since the previous rebuild;    *)
(* each timer is restarted by its own refresh only; a call that reaches    *)
(* neither threshold changes nothing.                                      *)
(***************************************************************************)
C22_RefreshCadences ==
    [][LET cpu_due  == now' - last_cpu_update >= refresh_interval_ms
           proc_due == now' - last_process_update >= 1000
       IN  /\ now' >= now
           /\ aop'.updates = aop.updates + 1
           /\ aop'.refreshes = aop.refreshes + (IF cpu_due THEN 1 ELSE 0)
           /\ aop'.samples = aop.samples + (IF cpu_due THEN 1 ELSE 0)
           /\ aop'.rebuilds = aop.rebuilds + (IF proc_due THEN 1 ELSE 0)
           /\ last_cpu_update' = (IF cpu_due THEN now' ELSE last_cpu_update)
           /\ last_process_update' = (IF proc_due THEN now' ELSE last_process_update)
           /\ ~cpu_due => UNCHANGED <<cpu_info, cpu_history, hpushes>>
           /\ ~proc_due => UNCHANGED <<sys, processes, filter, sort_by, sort_desc>>
           /\ UNCHANGED <<refresh_interval_ms, start_time>>]_vars

\* with an interval of 1500 ms: a rebuild without a CPU refresh at 1000, a
\* CPU refresh without a rebuild at 1500, then a call that does neither
C22_Witness ==
    /\ refresh_interval_ms = 1500
    /\ aop = AppOp(3, 1, 1, 1)
    /\ last_cpu_update = 1500
    /\ last_process_update = 1000
    /\ now = 1750
    /\ Len(cpu_history.timestamps.data) = 1

(***************************************************************************)
(* C23: the comparison of the sort by CpuUsage is a consistent total order *)
(* on all usages, NaN included (equal is transitive; a < b and b equal to  *)
(* c exclude c < a), so after the sort the usages that are not NaN are in  *)
(* the requested order.                                                    *)
(***************************************************************************)
NumbersOf(list) ==
    SelectSeq(list, LAMBDA p : ~p.cpu_usage.nan)

C23_NanOrderConsistent ==
    qpc = "done" =>
        /\ \A i, j, k \in 1..Len(usages) :
               LET a == usages[i]
                   b == usages[j]
                   c == usages[k]
               IN  /\ (compare_cpu_usage(a, b) = "Equal" /\ compare_cpu_usage(b, c) = "Equal")
                          => compare_cpu_usage(a, c) = "Equal"
                   /\ (compare_cpu_usage(a, b) = "Less" /\ compare_cpu_usage(b, c) = "Equal")
                          => compare_cpu_usage(c, a) # "Less"
        /\ \A out \in ordered :
               LET numbers == NumbersOf(out)
               IN  \A i \in 1..(Len(numbers) - 1) :
                       IF sort_desc
                       THEN numbers[i].cpu_usage.val >= numbers[i + 1].cpu_usage.val
                       ELSE numbers[i].cpu_usage.val <= numbers[i + 1].cpu_usage.val

(***************************************************************************)
(* C24: detect_l3_caches returns one L3CacheInfo per distinct id seen on   *)
(* the cpus 0..logical_cores-1, with the size and shared_cpus read from    *)
(* the lowest cpu reporting that id, in strictly ascending order of id.    *)
(***************************************************************************)
\* the cpus that have a cache/index3 directory
WithIndex3 ==
    {c \in 0..(cpu_info.logical_cores - 1) : sysfs[c].exists}

\* the cache id cpu c reports
IdSeenOn(c) ==
    unwrap_or(narrowed(read_sysfs_value(sysfs[c].id, 2)), 0)

\* the lowest cpu that reports the id
DiscoveredOn(id) ==
    CHOOSE c \in WithIndex3 :
        /\ IdSeenOn(c) = id
        /\ \A d \in WithIndex3 : IdSeenOn(d) = id => c <= d

C24_OneCachePerIdFirstSeen ==
    cpc = "detected" =>
        LET caches == cpu_info.l3_caches
        IN  /\ {caches[i].id : i \in 1..Len(caches)} = {IdSeenOn(c) : c \in WithIndex3}
            /\ \A i, j \in 1..Len(caches) : i < j => caches[i].id < caches[j].id
            /\ \A i \in 1..Len(caches) :
                   LET dir == sysfs[DiscoveredOn(caches[i].id)]
                   IN  /\ caches[i].size_kb = parse_cache_size(unwrap_or_default(dir.size))
                       /\ caches[i].shared_cpus
                              = unwrap_or(parse_cpu_list(unwrap_or_default(dir.shared_cpu_list)), <<>>)

\* cpu 0 and cpu 1 report the same cache id with different sizes: one cache,
\* with the size cpu 0 reported
C24_Witness ==
    /\ cpc = "detected"
    /\ sysfs[0].exists
    /\ sysfs[1].exists
    /\ IdSeenOn(0) = IdSeenOn(1)
    /\ parse_cache_size(unwrap_or_default(sysfs[0].size))
           # parse_cache_size(unwrap_or_default(sysfs[1].size))
    /\ Len(cpu_info.l3_caches) = 1
    /\ cpu_info.l3_caches[1].size_kb = parse_cache_size(unwrap_or_default(sysfs[0].size))

(***************************************************************************)
(* C25: a core has an l3_cache_id exactly when some cache's shared_cpus    *)
(* contains its cpu_id, and when several caches contain it the core gets   *)
(* the one discovered first during the scan of the cpus.                   *)
(***************************************************************************)
C25_JoinFirstDiscovered ==
    cpc \in {"detected", "queried"} =>
        \A n \in 1..Len(cpu_info.cores) :
            LET core     == cpu_info.cores[n]
                caches   == cpu_info.l3_caches
                matching == {i \in 1..Len(caches) :
                                vec_contains(caches[i].shared_cpus, core.cpu_id)}
            IN  /\ core.l3_cache_id.some <=> matching # {}
                /\ matching # {} =>
                       \A i \in matching :
                           DiscoveredOn(core.l3_cache_id.val) <= DiscoveredOn(caches[i].id)

(***************************************************************************)
(* C27: in the scheduler panel error_message and success_message are never *)
(* both set, whatever apply_scheduler calls, apply_preset calls and        *)
(* dismissals came before.                                                 *)
(***************************************************************************)
C27_MessagesExclusive ==
    ~(error_message.some /\ success_message.some)

(***************************************************************************)
(* C28: after an apply_preset that reported the preset P as applied the    *)
(* process has the policy of P, the niceness P.priority when P is not      *)
(* real-time, and the affinity of P, all cpus when P has none, whatever    *)
(* its state was before.                                                   *)
(***************************************************************************)
C28_PresetDeterminesState ==
    (/\ op.name = "apply_preset"
     /\ ~error_message.some
     /\ success_message = Some(presets[op.arg].name)) =>
        LET P == presets[op.arg]
        IN  /\ kernel.policy = to_raw(P.policy)
            /\ ~is_realtime(P.policy) => kernel.nice = P.priority
            /\ kernel.affinity = (IF P.affinity_cores.some
                                  THEN {P.affinity_cores.val[i] :
                                           i \in 1..Len(P.affinity_cores.val)} \cap Online
                                  ELSE Online)

(***************************************************************************)
(* C30: on a machine of L >= 1 logical cpus, whatever the core siblings    *)
(* list holds, the detected physical_cores is between 1 and L, and         *)
(* smt_enabled is false when L = 1.                                        *)
(***************************************************************************)
C30_PhysicalCoresInRange ==
    (cpc \in {"detected", "queried"} /\ cpu_info.logical_cores >= 1) =>
        /\ cpu_info.physical_cores >= 1
        /\ cpu_info.physical_cores <= cpu_info.logical_cores
        /\ cpu_info.logical_cores = 1 => ~cpu_info.smt_enabled

(***************************************************************************)
(* C26: the layer above the facade never hands set_process_affinity an     *)
(* empty core set: the confirm button of the affinity editor with nothing  *)
(* selected sets an error, calls nothing and stays in editing mode, and    *)
(* every built-in preset that has affinity_cores, which apply_preset hands *)
(* to the facade as they are, has a non-empty one.                         *)
(***************************************************************************)
C26_NoEmptyAffinityCall ==
    /\ \A n \in 1..Len(eop.made) : eop.made[n].cores # <<>>
    /\ (eop.name = "confirm" /\ \A i \in 1..Len(eop.arg) : ~eop.arg[i]) =>
           /\ eop.made = <<>>
           /\ list_error = Some("select_a_core")
           /\ editing_affinity = Some(TargetPid)
    /\ \A i \in 1..Len(presets) :
           presets[i].affinity_cores.some => presets[i].affinity_cores.val # <<>>

\* the confirm button was pressed with every core unticked, next to presets
\* for the V-Cache cores and for the other cores
C26_Witness ==
    /\ eop.name = "confirm"
    /\ Len(eop.arg) = NumCores
    /\ \A i \in 1..Len(eop.arg) : ~eop.arg[i]
    /\ list_error.some
    /\ editing_affinity.some
    /\ Len(presets) = 6
    /\ \E i \in 1..Len(presets) : presets[i].affinity_cores.some

====
